---------------------------- MODULE Spec2Model ----------------------------
(***************************************************************************)
(* Job lifecycle and provider fallback of the TTS relay server             *)
(* (src/railway/server.js, lines 1-487: the ONNX server with Google TTS    *)
(* fallback).                                                               *)
(*                                                                         *)
(* Node.js runs every handler and every continuation of an async function  *)
(* to its next `await` without interruption, so one action of this model   *)
(* is one such run: a request handler up to its first suspension, or the   *)
(* continuation of a processing task after the promise it awaits settles.  *)
(* What the external collaborators answer (npm, the model directory, the   *)
(* inference session, the remote TTS endpoint, the file system) is drawn   *)
(* with \E.                                                                *)
(***************************************************************************)
EXTENDS Integers, Sequences, FiniteSets, Bags, TLC

VARIABLES
    jobs,         \* the keys of the Map `jobs`
    job,          \* the job objects ever created, by id (a deleted key's
                  \* object is still referenced by its task's closure)
    task,         \* per job: where its processing task is suspended
    hist,         \* per job: the <<status, progress>> pairs written so far
    attempts,     \* per job: outcome of the ONNX and of the Google attempt, the
                  \* number of attempts started, what the dispatch probed
    timers,       \* the armed cleanup timers (setTimeout callbacks)
    files,        \* the files present in AUDIO_DIR
    onnxRuntime,  \* the global onnxRuntime is loaded (onnxInstalled with it)
    pending,      \* POST /api/tts requests suspended in `await installOnnxRuntime()`
    bgInstalls,   \* npm installs in flight for startup or POST /api/install-onnx
    http,         \* the last POST /api/tts exchange: the text sent, the response
    now,          \* the clock, in units of the cleanup delay
    poll,         \* the last GET /api/job/:jobId exchange: the id asked, the response
    lastSweep,    \* when the hourly sweep last ran (0: not yet)
    cleanupErrors, \* the jobs for which a cleanup callback caught and logged an exception
    client        \* the browser's pollJobCompletion: where it is, what it has seen

vars == <<jobs, job, task, hist, attempts, timers, files, onnxRuntime,
          pending, bgInstalls, http, now, poll, lastSweep, cleanupErrors, client>>

---------------------------------------------------------------------------
(* Bounds of the model *)

MaxJobs == 1

MaxBgInstalls == 1

MaxTime == 1

(* Program constants *)

MaxTextLength == 500

CleanupDelay == 1

---------------------------------------------------------------------------
(* Request inputs.  A text is represented by what the handlers read of it: *)
(* whether the body has one, its length, and whether encodeURIComponent    *)
(* accepts it (it throws URIError on a lone surrogate).                    *)

NoText == [present |-> FALSE, len |-> 0, wellFormed |-> TRUE]

Text(n, wf) == [present |-> TRUE, len |-> n, wellFormed |-> wf]

\* the request bodies the model submits: { text, voice }
Requests ==
    { [text |-> NoText, voice |-> "undefined"],
      [text |-> Text(0, TRUE), voice |-> "nb"],
      [text |-> Text(1, FALSE), voice |-> "nb"],
      [text |-> Text(MaxTextLength, TRUE), voice |-> "undefined"],
      [text |-> Text(MaxTextLength + 1, TRUE), voice |-> "nb"] }

\* `!text`: undefined and the empty string are falsy
Falsy(text) == ~text.present \/ text.len = 0

\* const { text, voice = 'default' } = req.body
VoiceOrDefault(v) == IF v = "undefined" THEN "default" ELSE v

\* Validate without its first check
ValidateLengthOnly(text) ==
    IF text.len > MaxTextLength THEN "Text is too long. Maximum 500 characters."
    ELSE "ok"

\* the two checks at the head of the handler
Validate(text) ==
    IF Falsy(text) THEN "Text is required"
    ELSE IF text.len > MaxTextLength THEN "Text is too long. Maximum 500 characters."
    ELSE "ok"

---------------------------------------------------------------------------
(* Job objects: a JavaScript object is a function from the keys it has.    *)

Has(o, k) == k \in DOMAIN o

Put(o, k, v) == [x \in DOMAIN o \cup {k} |-> IF x = k THEN v ELSE o[x]]

Terminal == { "completed", "failed" }

OnnxProvider == "ONNX Local Models"

OnnxSuccessProvider == "ONNX Local Models (success)"

GoogleProvider == "Google TTS (fallback)"

OnnxFile(id) == <<id, "_onnx.wav">>

GoogleFile(id) == <<id, "_google.mp3">>

AudioUrl(file) == <<"https://backendttc-production.up.railway.app", "/audio/", file>>

NewJob(id, text, voice, t) ==
    [id |-> id, text |-> text, voice |-> voice, status |-> "queued",
     progress |-> 0, createdAt |-> t]

---------------------------------------------------------------------------
(* The field updates of processOnnxTTS, one operator per group of          *)
(* assignments between two points where the function can throw or suspend. *)

\* job.status = 'processing'; job.progress = 10
OnnxStarted(o) == [o EXCEPT !.status = "processing", !.progress = 10]

\* job.progress = 20; job.status = 'loading_model'
LoadingModel(o) == [o EXCEPT !.progress = 20, !.status = "loading_model"]

\* ModelFilesRead with 4 for 40
ModelFilesReadTypo(o) == [o EXCEPT !.progress = 4]

\* job.progress = 40
ModelFilesRead(o) == [o EXCEPT !.progress = 40]

\* GeneratingAudio without `job.status = 'generating_audio'`
GeneratingAudioKeepsStatus(o) == [o EXCEPT !.progress = 60]

\* job.progress = 60; job.status = 'generating_audio'
GeneratingAudio(o) == [o EXCEPT !.progress = 60, !.status = "generating_audio"]

\* TextConverted that also stores the cleaned text in the job
TextConvertedStoresText(o) ==
    [o EXCEPT !.progress = 80, !.text = Text(o.text.len, TRUE)]

\* job.progress = 80
TextConverted(o) == [o EXCEPT !.progress = 80]

\* job.progress = 90; job.status = 'finalizing'
Finalizing(o) == [o EXCEPT !.progress = 90, !.status = "finalizing"]

\* OnnxCompleted without `job.ttsProvider = 'ONNX Local Models (success)'`
\* and with the fallback's name left by an earlier assignment
OnnxCompletedOtherProvider(o, t) ==
    LET o1 == [o EXCEPT !.status = "completed", !.progress = 100]
        o2 == Put(o1, "audioUrl", AudioUrl(OnnxFile(o.id)))
        o3 == Put(o2, "audioPath", OnnxFile(o.id))
        o4 == Put(o3, "completedAt", t)
        o5 == Put(o4, "modelUsed", "model.onnx")
    IN  Put(o5, "ttsProvider", GoogleProvider)

\* OnnxCompleted without `job.audioUrl = audioUrl`
OnnxCompletedNoUrl(o, t) ==
    LET o1 == [o EXCEPT !.status = "completed", !.progress = 100]
        o3 == Put(o1, "audioPath", OnnxFile(o.id))
        o4 == Put(o3, "completedAt", t)
        o5 == Put(o4, "modelUsed", "model.onnx")
    IN  Put(o5, "ttsProvider", OnnxSuccessProvider)

\* the seven assignments after `await saveAsWav(...)`
OnnxCompleted(o, t) ==
    LET o1 == [o EXCEPT !.status = "completed", !.progress = 100]
        o2 == Put(o1, "audioUrl", AudioUrl(OnnxFile(o.id)))
        o3 == Put(o2, "audioPath", OnnxFile(o.id))
        o4 == Put(o3, "completedAt", t)
        o5 == Put(o4, "modelUsed", "model.onnx")
    IN  Put(o5, "ttsProvider", OnnxSuccessProvider)

(* The field updates of fallbackToGoogleTTS. *)

\* FallbackStarted without `job.progress = 60`: the fallback goes on from
\* the progress the ONNX attempt left
FallbackStartedKeepsProgress(o) ==
    Put([o EXCEPT !.status = "generating_audio"], "ttsProvider", GoogleProvider)

\* FallbackStarted without `job.ttsProvider = 'Google TTS (fallback)'`
FallbackStartedKeepsProvider(o) ==
    [o EXCEPT !.status = "generating_audio", !.progress = 60]

\* job.status = 'generating_audio'; job.progress = 60; job.ttsProvider = ...
FallbackStarted(o) ==
    Put([o EXCEPT !.status = "generating_audio", !.progress = 60],
        "ttsProvider", GoogleProvider)

\* FallbackCompleted without `job.progress = 100`
FallbackCompletedNoProgress(o, t) ==
    LET o1 == [o EXCEPT !.status = "completed"]
        o2 == Put(o1, "audioUrl", AudioUrl(GoogleFile(o.id)))
        o3 == Put(o2, "audioPath", GoogleFile(o.id))
    IN  Put(o3, "completedAt", t)

\* the five assignments after fs.writeFileSync(audioPath, ...)
FallbackCompleted(o, t) ==
    LET o1 == [o EXCEPT !.status = "completed", !.progress = 100]
        o2 == Put(o1, "audioUrl", AudioUrl(GoogleFile(o.id)))
        o3 == Put(o2, "audioPath", GoogleFile(o.id))
    IN  Put(o3, "completedAt", t)

\* FallbackFailed without `job.error = ...`
FallbackFailedNoError(o, message) == [o EXCEPT !.status = "failed"]

\* the catch block: job.status = 'failed'; job.error = `TTS failed: ${error.message}`
FallbackFailed(o, message) ==
    Put([o EXCEPT !.status = "failed"], "error", <<"TTS failed: ", message>>)

\* the pair a status poll would read from o
Seen(o) == <<o.status, o.progress>>

---------------------------------------------------------------------------
(* A run of a processing task is described by the record it leaves:        *)
(* obj (the job object), hist, task (where it suspends, or "done"),        *)
(* att (the outcome of each backend's attempt and how many were started).  *)

\* no attempt started yet; probe and assets record what the dispatch found:
\* checkOnnxSupport().available and modelStatus.available
Probed(probe, assets) ==
    [onnx |-> "none", google |-> "none", started |-> 0, probe |-> probe, assets |-> assets]

Run(o, h, tk, a) == [obj |-> o, hist |-> h, task |-> tk, att |-> a]

\* fallbackToGoogleTTS up to `await fetch(ttsUrl, ...)`: inMap is what
\* jobs.get(jobId) finds; encodeURIComponent(text) throws inside the try
FallbackBegin(r, inMap) ==
    IF ~inMap THEN Run(r.obj, r.hist, "done", r.att)
    ELSE LET o1 == FallbackStarted(r.obj)
             h1 == Append(r.hist, Seen(o1))
         IN  IF r.obj.text.wellFormed
             THEN Run(o1, h1, "google_fetch",
                      [r.att EXCEPT !.google = "running", !.started = @ + 1])
             ELSE LET o2 == FallbackFailed(o1, "URI malformed")
                  IN  Run(o2, Append(h1, Seen(o2)), "done",
                          [r.att EXCEPT !.google = "failed", !.started = @ + 1])

\* OnnxRejected whose handler records the failure and starts no fallback
OnnxRejectedSetsFailed(r, inMap) ==
    LET o1 == Put([r.obj EXCEPT !.status = "failed"], "error", <<"session failed">>)
    IN  Run(o1, Append(r.hist, Seen(o1)), "done", [r.att EXCEPT !.onnx = "failed"])

\* OnnxRejected for a fallback started beside the ONNX task, which has not ended
OnnxRejectedRacing(r, inMap) == FallbackBegin(r, inMap)

\* OnnxRejected with no .catch on the promise: the rejection is left unhandled
OnnxRejectedUnhandled(r, inMap) ==
    Run(r.obj, r.hist, "onnx_rejected", [r.att EXCEPT !.onnx = "failed"])

\* processOnnxTTS(...).catch(error => fallbackToGoogleTTS(...)): the promise
\* of the ONNX task rejects and the handler starts the fallback
OnnxRejected(r, inMap) ==
    FallbackBegin([r EXCEPT !.att.onnx = "failed"], inMap)

\* processOnnxTTS up to `await onnxRuntime.InferenceSession.create(modelPath)`;
\* runtimeLoaded is the global onnxRuntime, configOk whether reading and
\* parsing the model's config succeeds
OnnxBegin(r, inMap, runtimeLoaded, configOk) ==
    IF ~inMap THEN Run(r.obj, r.hist, "done", r.att)
    ELSE LET a1 == [r.att EXCEPT !.onnx = "running", !.started = @ + 1]
             o1 == OnnxStarted(r.obj)
             h1 == Append(r.hist, Seen(o1))
             o2 == LoadingModel(o1)
             h2 == Append(h1, Seen(o2))
             o3 == ModelFilesRead(o2)
         IN  IF ~runtimeLoaded THEN Run(o1, h1, "onnx_rejected", a1)
             ELSE IF ~configOk THEN Run(o2, h2, "onnx_rejected", a1)
             ELSE Run(o3, Append(h2, Seen(o3)), "onnx_create", a1)

---------------------------------------------------------------------------
(* GET /api/job/:jobId.  The client asks for ids it was given and for ids  *)
(* no request was ever given.                                              *)

PollIds == 1..(MaxJobs + 1)

NoPoll == [id |-> 0, code |-> 0]

\* Lookup that ignores the id asked for
LookupAny(id) == IF jobs = {} THEN <<>> ELSE <<job[CHOOSE j \in jobs : TRUE]>>

\* jobs.get(req.params.jobId): the job object, or nothing for undefined
Lookup(id) == IF id \in jobs THEN <<job[id]>> ELSE <<>>

\* res.status(404).json({ error: 'Job not found' }), or res.json(job)
JobResponse(id) ==
    IF Lookup(id) = <<>>
    THEN [id |-> id, code |-> 404, error |-> "Job not found"]
    ELSE [id |-> id, code |-> 200, body |-> Lookup(id)[1]]

\* GetJob that deletes a terminal job and its files once it has been retrieved
GetJobDeletesRetrieved(id) ==
    /\ poll' = JobResponse(id)
    /\ IF id \in jobs /\ job[id].status \in Terminal
       THEN /\ jobs' = jobs \ {id}
            /\ files' = files \ {OnnxFile(id), GoogleFile(id)}
       ELSE UNCHANGED <<jobs, files>>
    /\ UNCHANGED <<job, task, hist, attempts, timers, onnxRuntime,
                   pending, bgInstalls, http, now, lastSweep, cleanupErrors, client>>

GetJob(id) ==
    /\ poll' = JobResponse(id)
    /\ UNCHANGED <<jobs, job, task, hist, attempts, timers, files, onnxRuntime,
                   pending, bgInstalls, http, now, lastSweep, cleanupErrors, client>>

---------------------------------------------------------------------------
(* The browser client (src/api/tts.js): pollJobCompletion(jobId,           *)
(* maxAttempts, interval), an async loop that fetches GET /api/job/:jobId  *)
(* and sleeps between attempts.  One action is one run of the function     *)
(* between two awaits; `await response.json()` is taken with the fetch.    *)

MaxPolls == 3

\* before pollJobCompletion is called
NoClient ==
    [pc |-> "idle", jobId |-> 0, maxAttempts |-> 0, attempt |-> 0, gets |-> 0,
     seen |-> "none", returned |-> <<>>, error |-> ""]

\* throw new Error(message) out of the function
ClientThrows(c, message) == [c EXCEPT !.pc = "threw", !.error = message]

\* ClientIssue with the loop test `attempt <= maxAttempts + 1`
ClientIssueOffByOne(c) ==
    IF c.attempt <= c.maxAttempts + 1
    THEN [c EXCEPT !.pc = "fetch", !.gets = @ + 1]
    ELSE ClientThrows(c, "Job polling timeout - job did not complete in time")

\* the loop test `attempt <= maxAttempts` and, inside, the fetch; after the
\* loop, the throw of the timeout
ClientIssue(c) ==
    IF c.attempt <= c.maxAttempts
    THEN [c EXCEPT !.pc = "fetch", !.gets = @ + 1]
    ELSE ClientThrows(c, "Job polling timeout - job did not complete in time")

\* the catch block of the loop body: rethrow at the last attempt, else sleep
ClientCaught(c, message) ==
    IF c.attempt = c.maxAttempts THEN ClientThrows(c, message)
    ELSE [c EXCEPT !.pc = "sleep"]

\* what a fetch delivers when no response arrives
NetworkError == [id |-> 0, code |-> 0]

\* the loop body from the fetch settling to the next await, return or throw;
\* the throw for 'failed' is inside the try block, so the catch block gets it
ClientAfterAnswer(c, answer) ==
    IF answer.code = 0 THEN ClientCaught([c EXCEPT !.seen = "error"], "Failed to fetch")
    ELSE IF answer.code # 200
    THEN ClientCaught([c EXCEPT !.seen = "http_error"], "HTTP 404: Not Found")
    ELSE LET c1 == [c EXCEPT !.seen = answer.body.status]
         IN  IF answer.body.status = "completed"
             THEN [c1 EXCEPT !.pc = "returned", !.returned = <<answer.body>>]
             ELSE IF answer.body.status = "failed"
             THEN ClientCaught(c1, "TTS processing failed")
             ELSE IF c.attempt < c.maxAttempts THEN [c1 EXCEPT !.pc = "sleep"]
             ELSE ClientIssue([c1 EXCEPT !.attempt = @ + 1])

\* pollJobCompletion(id, n) is called and runs to its first await
PollStart(id, n) ==
    /\ client.pc = "idle"
    /\ client' = ClientIssue([NoClient EXCEPT !.jobId = id, !.maxAttempts = n, !.attempt = 1])
    /\ UNCHANGED <<jobs, job, task, hist, attempts, timers, files, onnxRuntime,
                   pending, bgInstalls, http, now, poll, lastSweep, cleanupErrors>>

\* the fetch settles: the server has answered the GET, or no response came
PollAnswered(delivered) ==
    /\ client.pc = "fetch"
    /\ LET answer == IF delivered THEN JobResponse(client.jobId) ELSE NetworkError
       IN  /\ client' = ClientAfterAnswer(client, answer)
           /\ poll' = IF delivered THEN answer ELSE poll
    /\ UNCHANGED <<jobs, job, task, hist, attempts, timers, files, onnxRuntime,
                   pending, bgInstalls, http, now, lastSweep, cleanupErrors>>

\* sleep(interval) resolves: attempt++ and the next iteration
PollSleepDone ==
    /\ client.pc = "sleep"
    /\ client' = ClientIssue([client EXCEPT !.attempt = @ + 1])
    /\ UNCHANGED <<jobs, job, task, hist, attempts, timers, files, onnxRuntime,
                   pending, bgInstalls, http, now, poll, lastSweep, cleanupErrors>>

---------------------------------------------------------------------------
(* State after construction: app.listen's callback has called              *)
(* installOnnxRuntime(), which either loaded the runtime with require() or *)
(* is waiting for `npm install`.                                           *)

Init ==
    /\ jobs = {}
    /\ job = <<>>
    /\ task = <<>>
    /\ hist = <<>>
    /\ attempts = <<>>
    /\ timers = {}
    /\ files = {}
    /\ onnxRuntime \in BOOLEAN
    /\ pending = EmptyBag
    /\ bgInstalls = IF onnxRuntime THEN 0 ELSE 1
    /\ http = [text |-> NoText, code |-> 0]
    /\ now = 0
    /\ poll = NoPoll
    /\ lastSweep = 0
    /\ cleanupErrors = {}
    /\ client = NoClient

\* requests that were accepted: a job each, or still awaiting the install
Accepted == Len(job) + BagCardinality(pending)

\* useOnnx = finalOnnxCheck.available && modelStatus.available
UseOnnx(onnxAvailable, modelsAvailable) == onnxAvailable /\ modelsAvailable

\* res.json({ message: 'TTS job created', jobId: jobId, status: job.status, ... })
JobCreatedResponse(o) ==
    [text |-> o.text, code |-> 200, jobId |-> o.id, status |-> o.status]

\* res.status(400).json({ error: ... })
BadRequest(text, message) == [text |-> text, code |-> 400, error |-> message]

\* Dispatch that stores the job and leaves the start of its task to a later
\* turn of the event loop
DispatchDeferred(text, voice, onnxAvailable, modelsAvailable, configOk) ==
    LET id == Len(job) + 1
        o0 == NewJob(id, text, voice, now)
    IN  /\ jobs' = jobs \cup {id}
        /\ job' = Append(job, o0)
        /\ task' = Append(task, "none")
        /\ hist' = Append(hist, <<Seen(o0)>>)
        /\ attempts' = Append(attempts, Probed(onnxAvailable, modelsAvailable))
        /\ http' = JobCreatedResponse(o0)
        /\ UNCHANGED <<timers, files, now, poll, lastSweep, cleanupErrors, client>>

(* POST /api/tts from the model check to the response: the job is stored,  *)
(* the task chosen by useOnnx runs to its first await (or throws), the     *)
(* response is written, and then the .catch handler of a task that threw   *)
(* runs as a microtask.                                                    *)
Dispatch(text, voice, onnxAvailable, modelsAvailable, configOk) ==
    LET id == Len(job) + 1
        o0 == NewJob(id, text, voice, now)
        h0 == <<Seen(o0)>>
        a0 == Probed(onnxAvailable, modelsAvailable)
        useOnnx == UseOnnx(onnxAvailable, modelsAvailable)
        started ==
            IF useOnnx
            THEN OnnxBegin(Run(Put(o0, "ttsProvider", OnnxProvider), h0, "none", a0),
                           TRUE, onnxAvailable, configOk)
            ELSE FallbackBegin(Run(Put(o0, "ttsProvider", GoogleProvider), h0, "none", a0),
                               TRUE)
        settled ==
            IF started.task = "onnx_rejected" THEN OnnxRejected(started, TRUE) ELSE started
    IN  /\ jobs' = jobs \cup {id}
        /\ job' = Append(job, settled.obj)
        /\ task' = Append(task, settled.task)
        /\ hist' = Append(hist, settled.hist)
        /\ attempts' = Append(attempts, settled.att)
        /\ http' = JobCreatedResponse(started.obj)
        /\ UNCHANGED <<timers, files, now, poll, lastSweep, cleanupErrors, client>>

\* the handler returns 400 at one of its two checks
PostRejected(text, voice) ==
    /\ Validate(text) # "ok"
    /\ http' = BadRequest(text, Validate(text))
    /\ UNCHANGED <<jobs, job, task, hist, attempts, timers, files, onnxRuntime,
                   pending, bgInstalls, now, poll, lastSweep, cleanupErrors, client>>

\* checkOnnxSupport() finds no runtime: the handler suspends in
\* `await installOnnxRuntime()`, which has started `npm install`
PostAwaitsInstall(text, voice) ==
    /\ Validate(text) = "ok"
    /\ ~onnxRuntime
    /\ Accepted < MaxJobs
    /\ pending' = pending (+) SetToBag({[text |-> text, voice |-> VoiceOrDefault(voice)]})
    /\ UNCHANGED <<jobs, job, task, hist, attempts, timers, files, onnxRuntime,
                   bgInstalls, http, now, poll, lastSweep, cleanupErrors, client>>

\* the runtime is loaded: the handler runs to its response in one go
PostAccepted(text, voice, modelsAvailable, configOk) ==
    /\ Validate(text) = "ok"
    /\ onnxRuntime
    /\ Accepted < MaxJobs
    /\ Dispatch(text, VoiceOrDefault(voice), onnxRuntime, modelsAvailable, configOk)
    /\ UNCHANGED <<onnxRuntime, pending, bgInstalls>>

\* `npm install` of a suspended request ends; on success installOnnxRuntime
\* loads the runtime, and the handler goes on to its response
PostInstallSettled(req, installed, modelsAvailable, configOk) ==
    /\ BagIn(req, pending)
    /\ pending' = pending (-) SetToBag({req})
    /\ onnxRuntime' = (onnxRuntime \/ installed)
    /\ Dispatch(req.text, req.voice, onnxRuntime', modelsAvailable, configOk)
    /\ UNCHANGED bgInstalls

\* POST /api/install-onnx when the runtime is not loaded: another `npm install`
InstallEndpoint ==
    /\ ~onnxRuntime
    /\ bgInstalls < MaxBgInstalls
    /\ bgInstalls' = bgInstalls + 1
    /\ UNCHANGED <<jobs, job, task, hist, attempts, timers, files, onnxRuntime,
                   pending, http, now, poll, lastSweep, cleanupErrors, client>>

\* the `npm install` of startup or of POST /api/install-onnx ends
BgInstallSettled(installed) ==
    /\ bgInstalls > 0
    /\ bgInstalls' = bgInstalls - 1
    /\ onnxRuntime' = (onnxRuntime \/ installed)
    /\ UNCHANGED <<jobs, job, task, hist, attempts, timers, files, pending, http, now, poll, lastSweep, cleanupErrors, client>>

---------------------------------------------------------------------------
(* Continuations of the processing tasks.                                  *)

Current(j) == Run(job[j], hist[j], task[j], attempts[j])

Commit(j, r) ==
    /\ job' = [job EXCEPT ![j] = r.obj]
    /\ task' = [task EXCEPT ![j] = r.task]
    /\ hist' = [hist EXCEPT ![j] = r.hist]
    /\ attempts' = [attempts EXCEPT ![j] = r.att]

SessionOutcomes == { "created", "rejected" }

\* processOnnxTTS from InferenceSession.create settling to `await session.run(feeds)`
OnnxAfterCreate(r, outcome, inMap) ==
    IF outcome = "rejected" THEN OnnxRejected(r, inMap)
    ELSE LET o1 == GeneratingAudio(r.obj)
             h1 == Append(r.hist, Seen(o1))
             o2 == TextConverted(o1)
         IN  Run(o2, Append(h1, Seen(o2)), "onnx_run", r.att)

InferenceOutcomes ==
    { "completed", "run_rejected", "no_output", "save_failed", "save_failed_partial" }

\* OnnxAfterRun whose promise is followed by .finally in place of .catch:
\* the fallback starts after a completed ONNX attempt too
OnnxAfterRunThenFallback(r, outcome, inMap, t) ==
    IF outcome = "run_rejected" THEN OnnxRejected(r, inMap)
    ELSE LET o1 == Finalizing(r.obj)
             h1 == Append(r.hist, Seen(o1))
             o2 == OnnxCompleted(o1, t)
         IN  IF outcome = "completed"
             THEN FallbackBegin(Run(o2, Append(h1, Seen(o2)), r.task,
                                    [r.att EXCEPT !.onnx = "ok"]), inMap)
             ELSE OnnxRejected(Run(o1, h1, r.task, r.att), inMap)

\* OnnxAfterRun that does not see saveAsWav fail: the assignments of
\* 'completed' follow a write that threw
OnnxAfterRunIgnoresSave(r, outcome, inMap, t) ==
    IF outcome \in {"run_rejected", "no_output"} THEN OnnxRejected(r, inMap)
    ELSE LET o1 == Finalizing(r.obj)
             o2 == OnnxCompleted(o1, t)
         IN  Run(o2, Append(Append(r.hist, Seen(o1)), Seen(o2)), "done",
                 [r.att EXCEPT !.onnx = "ok"])

\* processOnnxTTS from session.run settling to its end: saveAsWav has no
\* await of its own, so the file is written in the same run
OnnxAfterRun(r, outcome, inMap, t) ==
    IF outcome = "run_rejected" THEN OnnxRejected(r, inMap)
    ELSE LET o1 == Finalizing(r.obj)
             h1 == Append(r.hist, Seen(o1))
             o2 == OnnxCompleted(o1, t)
         IN  IF outcome = "completed"
             THEN Run(o2, Append(h1, Seen(o2)), "done", [r.att EXCEPT !.onnx = "ok"])
             ELSE OnnxRejected(Run(o1, h1, r.task, r.att), inMap)

\* Timer whose callback names the first job, not its own
TimerOfFirstJob(id, path, t) == [id |-> 1, path |-> path, due |-> t + CleanupDelay]

\* setTimeout(() => {...}, 5 * 60 * 1000)
Timer(id, path, t) == [id |-> id, path |-> path, due |-> t + CleanupDelay]

OnnxSessionSettled(j, outcome) ==
    /\ task[j] = "onnx_create"
    /\ Commit(j, OnnxAfterCreate(Current(j), outcome, j \in jobs))
    /\ UNCHANGED <<jobs, timers, files, onnxRuntime, pending, bgInstalls, http, now, poll, lastSweep, cleanupErrors, client>>

OnnxRunSettled(j, outcome) ==
    /\ task[j] = "onnx_run"
    /\ Commit(j, OnnxAfterRun(Current(j), outcome, j \in jobs, now))
    /\ files' = IF outcome \in {"completed", "save_failed_partial"}
                THEN files \cup {OnnxFile(j)} ELSE files
    /\ timers' = IF outcome = "completed"
                 THEN timers \cup {Timer(j, OnnxFile(j), now)} ELSE timers
    /\ UNCHANGED <<jobs, onnxRuntime, pending, bgInstalls, http, now, poll, lastSweep, cleanupErrors, client>>

FetchOutcomes == { "ok", "rejected", "not_ok" }

\* FallbackAfterFetch whose failure is recorded without leaving the function
FallbackAfterFetchContinues(r, outcome) ==
    IF outcome = "ok" THEN Run(r.obj, r.hist, "google_body", r.att)
    ELSE LET o1 == FallbackFailed(r.obj, "fetch failed")
         IN  Run(o1, Append(r.hist, Seen(o1)), "google_body", r.att)

\* fallbackToGoogleTTS from fetch settling to `await response.arrayBuffer()`
FallbackAfterFetch(r, outcome) ==
    IF outcome = "ok" THEN Run(r.obj, r.hist, "google_body", r.att)
    ELSE LET o1 == FallbackFailed(r.obj, IF outcome = "not_ok"
                                         THEN "Google TTS error: 500" ELSE "fetch failed")
         IN  Run(o1, Append(r.hist, Seen(o1)), "done", [r.att EXCEPT !.google = "failed"])

\* the same in the debugging server, whose message for a non-OK response differs
DebugFallbackAfterFetch(r, outcome) ==
    IF outcome = "ok" THEN Run(r.obj, r.hist, "google_body", r.att)
    ELSE LET o1 == FallbackFailed(r.obj, IF outcome = "not_ok"
                                         THEN "Google TTS API error: 500 Internal Server Error"
                                         ELSE "fetch failed")
         IN  Run(o1, Append(r.hist, Seen(o1)), "done", [r.att EXCEPT !.google = "failed"])

BodyOutcomes == { "completed", "rejected", "write_failed", "write_failed_partial" }

\* fallbackToGoogleTTS from arrayBuffer settling to its end
FallbackAfterBody(r, outcome, t) ==
    LET o1 == IF outcome = "completed" THEN FallbackCompleted(r.obj, t)
              ELSE FallbackFailed(r.obj, IF outcome = "rejected"
                                         THEN "body stream failed" ELSE "write failed")
    IN  Run(o1, Append(r.hist, Seen(o1)), "done",
            [r.att EXCEPT !.google = IF outcome = "completed" THEN "ok" ELSE "failed"])

GoogleFetchSettled(j, outcome) ==
    /\ task[j] = "google_fetch"
    /\ Commit(j, FallbackAfterFetch(Current(j), outcome))
    /\ UNCHANGED <<jobs, timers, files, onnxRuntime, pending, bgInstalls, http, now, poll, lastSweep, cleanupErrors, client>>

GoogleBodySettled(j, outcome) ==
    /\ task[j] = "google_body"
    /\ Commit(j, FallbackAfterBody(Current(j), outcome, now))
    /\ files' = IF outcome \in {"completed", "write_failed_partial"}
                THEN files \cup {GoogleFile(j)} ELSE files
    /\ timers' = IF outcome = "completed"
                 THEN timers \cup {Timer(j, GoogleFile(j), now)} ELSE timers
    /\ UNCHANGED <<jobs, onnxRuntime, pending, bgInstalls, http, now, poll, lastSweep, cleanupErrors, client>>

\* CleanupTimerFires that empties the audio directory
CleanupTimerFiresClearsDir(tm, unlinkOk) ==
    /\ tm \in timers
    /\ now >= tm.due
    /\ timers' = timers \ {tm}
    /\ IF tm.path \in files /\ ~unlinkOk
       THEN /\ cleanupErrors' = cleanupErrors \cup {tm.id}
            /\ UNCHANGED <<files, jobs>>
       ELSE /\ files' = {}
            /\ jobs' = jobs \ {tm.id}
            /\ UNCHANGED cleanupErrors
    /\ UNCHANGED <<job, task, hist, attempts, onnxRuntime, pending, bgInstalls, http, now, poll, lastSweep, client>>

\* CleanupTimerFires without the fs.existsSync(audioPath) test: unlinkSync
\* throws on a file that is not there
CleanupTimerFiresUnguarded(tm, unlinkOk) ==
    /\ tm \in timers
    /\ now >= tm.due
    /\ timers' = timers \ {tm}
    /\ IF tm.path \notin files \/ ~unlinkOk
       THEN /\ cleanupErrors' = cleanupErrors \cup {tm.id}
            /\ UNCHANGED <<files, jobs>>
       ELSE /\ files' = files \ {tm.path}
            /\ jobs' = jobs \ {tm.id}
            /\ UNCHANGED cleanupErrors
    /\ UNCHANGED <<job, task, hist, attempts, onnxRuntime, pending, bgInstalls, http, now, poll, lastSweep, client>>

\* the cleanup callback: an exception of unlinkSync is caught after the
\* unlink and logged, so jobs.delete(jobId) is skipped with it
CleanupTimerFires(tm, unlinkOk) ==
    /\ tm \in timers
    /\ now >= tm.due
    /\ timers' = timers \ {tm}
    /\ IF tm.path \in files /\ ~unlinkOk
       THEN /\ cleanupErrors' = cleanupErrors \cup {tm.id}
            /\ UNCHANGED <<files, jobs>>
       ELSE /\ files' = files \ {tm.path}
            /\ jobs' = jobs \ {tm.id}
            /\ UNCHANGED cleanupErrors
    /\ UNCHANGED <<job, task, hist, attempts, onnxRuntime, pending, bgInstalls, http, now, poll, lastSweep, client>>

Tick ==
    /\ now < MaxTime
    /\ now' = now + 1
    /\ UNCHANGED <<jobs, job, task, hist, attempts, timers, files, onnxRuntime,
                   pending, bgInstalls, http, poll, lastSweep, cleanupErrors, client>>

---------------------------------------------------------------------------

Next ==
    \/ \E body \in Requests : PostRejected(body.text, body.voice)
    \/ \E body \in Requests : PostAwaitsInstall(body.text, body.voice)
    \/ \E body \in Requests, m \in BOOLEAN, c \in BOOLEAN :
          PostAccepted(body.text, body.voice, m, c)
    \/ \E req \in BagToSet(pending), i \in BOOLEAN, m \in BOOLEAN, c \in BOOLEAN :
          PostInstallSettled(req, i, m, c)
    \/ InstallEndpoint
    \/ \E i \in BOOLEAN : BgInstallSettled(i)
    \/ \E j \in 1..Len(job), out \in SessionOutcomes : OnnxSessionSettled(j, out)
    \/ \E j \in 1..Len(job), out \in InferenceOutcomes : OnnxRunSettled(j, out)
    \/ \E j \in 1..Len(job), out \in FetchOutcomes : GoogleFetchSettled(j, out)
    \/ \E j \in 1..Len(job), out \in BodyOutcomes : GoogleBodySettled(j, out)
    \/ \E tm \in timers, u \in BOOLEAN : CleanupTimerFires(tm, u)
    \/ \E id \in PollIds : GetJob(id)
    \/ Tick

Spec == Init /\ [][Next]_vars

---------------------------------------------------------------------------
(* The debugging server (src/unnamed/part_005, lines 1-533): the same job  *)
(* lifecycle, with no install step, no length check, a provider recorded   *)
(* at creation and a second inference attempt with a float32 tensor.       *)
(* onnxRuntime stands for whether require('onnxruntime-node') succeeds.    *)

\* the only check at the head of the debugging server's handler
DebugValidate(text) == IF Falsy(text) THEN "Text is required" ELSE "ok"

DebugNewJob(id, text, voice, t) ==
    Put(NewJob(id, text, voice, t), "ttsProvider", "Determining...")

\* job.status = 'processing'; job.progress = 10; job.ttsProvider = '... (attempting)'
DebugOnnxStarted(o) ==
    Put(OnnxStarted(o), "ttsProvider", "ONNX Local Models (attempting)")

\* processOnnxTTS of the debugging server up to `await ort.InferenceSession.create`
DebugOnnxBegin(r, inMap, runtimeLoaded, configOk) ==
    IF ~inMap THEN Run(r.obj, r.hist, "done", r.att)
    ELSE LET a1 == [r.att EXCEPT !.onnx = "running", !.started = @ + 1]
             o1 == DebugOnnxStarted(r.obj)
             h1 == Append(r.hist, Seen(o1))
             o2 == LoadingModel(o1)
             h2 == Append(h1, Seen(o2))
             o3 == ModelFilesRead(o2)
         IN  IF ~runtimeLoaded THEN Run(o1, h1, "onnx_rejected", a1)
             ELSE IF ~configOk THEN Run(o2, h2, "onnx_rejected", a1)
             ELSE Run(o3, Append(h2, Seen(o3)), "onnx_create", a1)

\* the first session.run rejects: the inner catch runs it again with float32
DebugOnnxAfterRun(r, outcome, inMap, t) ==
    IF outcome = "run_rejected" THEN Run(r.obj, r.hist, "onnx_run_float32", r.att)
    ELSE OnnxAfterRun(r, outcome, inMap, t)

InitDebug ==
    /\ jobs = {}
    /\ job = <<>>
    /\ task = <<>>
    /\ hist = <<>>
    /\ attempts = <<>>
    /\ timers = {}
    /\ files = {}
    /\ onnxRuntime \in BOOLEAN
    /\ pending = EmptyBag
    /\ bgInstalls = 0
    /\ http = [text |-> NoText, code |-> 0]
    /\ now = 0
    /\ poll = NoPoll
    /\ lastSweep = 0
    /\ cleanupErrors = {}
    /\ client = NoClient

\* POST /api/tts of the debugging server from the model check to the response
DebugDispatch(text, voice, onnxAvailable, modelsAvailable, configOk) ==
    LET id == Len(job) + 1
        o0 == DebugNewJob(id, text, voice, now)
        h0 == <<Seen(o0)>>
        a0 == Probed(onnxAvailable, modelsAvailable)
        useOnnx == UseOnnx(onnxAvailable, modelsAvailable)
        started ==
            IF useOnnx
            THEN DebugOnnxBegin(Run(o0, h0, "none", a0), TRUE, onnxAvailable, configOk)
            ELSE FallbackBegin(Run(Put(o0, "ttsProvider", "Google TTS (primary)"), h0,
                                   "none", a0), TRUE)
        settled ==
            IF started.task = "onnx_rejected" THEN OnnxRejected(started, TRUE) ELSE started
    IN  /\ jobs' = jobs \cup {id}
        /\ job' = Append(job, settled.obj)
        /\ task' = Append(task, settled.task)
        /\ hist' = Append(hist, settled.hist)
        /\ attempts' = Append(attempts, settled.att)
        /\ http' = JobCreatedResponse(started.obj)
        /\ UNCHANGED <<timers, files, now, poll, lastSweep, cleanupErrors, client>>

DebugPostRejected(text, voice) ==
    /\ DebugValidate(text) # "ok"
    /\ http' = BadRequest(text, DebugValidate(text))
    /\ UNCHANGED <<jobs, job, task, hist, attempts, timers, files, onnxRuntime,
                   pending, bgInstalls, now, poll, lastSweep, cleanupErrors, client>>

DebugPostAccepted(text, voice, modelsAvailable, configOk) ==
    /\ DebugValidate(text) = "ok"
    /\ Accepted < MaxJobs
    /\ DebugDispatch(text, VoiceOrDefault(voice), onnxRuntime, modelsAvailable, configOk)
    /\ UNCHANGED <<onnxRuntime, pending, bgInstalls>>

DebugOnnxRunSettled(j, outcome) ==
    /\ task[j] \in {"onnx_run", "onnx_run_float32"}
    /\ Commit(j, IF task[j] = "onnx_run"
                 THEN DebugOnnxAfterRun(Current(j), outcome, j \in jobs, now)
                 ELSE OnnxAfterRun(Current(j), outcome, j \in jobs, now))
    /\ files' = IF outcome \in {"completed", "save_failed_partial"}
                THEN files \cup {OnnxFile(j)} ELSE files
    /\ timers' = IF outcome = "completed"
                 THEN timers \cup {Timer(j, OnnxFile(j), now)} ELSE timers
    /\ UNCHANGED <<jobs, onnxRuntime, pending, bgInstalls, http, now, poll, lastSweep, cleanupErrors, client>>

DebugGoogleFetchSettled(j, outcome) ==
    /\ task[j] = "google_fetch"
    /\ Commit(j, DebugFallbackAfterFetch(Current(j), outcome))
    /\ UNCHANGED <<jobs, timers, files, onnxRuntime, pending, bgInstalls, http, now, poll, lastSweep, cleanupErrors, client>>

NextDebug ==
    \/ \E body \in Requests : DebugPostRejected(body.text, body.voice)
    \/ \E body \in Requests, m \in BOOLEAN, c \in BOOLEAN :
          DebugPostAccepted(body.text, body.voice, m, c)
    \/ \E j \in 1..Len(job), out \in SessionOutcomes : OnnxSessionSettled(j, out)
    \/ \E j \in 1..Len(job), out \in InferenceOutcomes : DebugOnnxRunSettled(j, out)
    \/ \E j \in 1..Len(job), out \in FetchOutcomes : DebugGoogleFetchSettled(j, out)
    \/ \E j \in 1..Len(job), out \in BodyOutcomes : GoogleBodySettled(j, out)
    \/ \E tm \in timers, u \in BOOLEAN : CleanupTimerFires(tm, u)
    \/ \E id \in PollIds : GetJob(id)
    \/ Tick

SpecDebug == InitDebug /\ [][NextDebug]_vars

---------------------------------------------------------------------------
(* The server with the hourly sweep (src/unnamed/part_004): the handlers   *)
(* and tasks of the server above, and a setInterval callback that deletes  *)
(* the jobs created more than an hour before it runs.  The clock is read   *)
(* at the instants at which a timer or the sweep is due.                   *)

\* 60 * 60 * 1000 ms, in units of the cleanup delay of 5 * 60 * 1000 ms
SweepInterval == 12

StaleAfter == 12

MaxSweeps == 2

\* Stale with <= for <: a job created exactly an hour before is stale too
StaleOrEqual(o, t) == o.createdAt <= t - StaleAfter

\* Stale with the threshold an interval too far back
StaleLate(o, t) == o.createdAt < t - StaleAfter - SweepInterval

\* new Date(job.createdAt).getTime() < oneHourAgo
Stale(o, t) == o.createdAt < t - StaleAfter

\* the setInterval callback, once at each multiple of the interval: every
\* stale job loses its audioPath file, if it exists (an exception of
\* unlinkSync is caught inside the loop and logged), and its Map entry
Sweep(unlinkOk) ==
    /\ now % SweepInterval = 0
    /\ lastSweep < now
    /\ lastSweep' = now
    /\ LET stale == { j \in jobs : Stale(job[j], now) }
           paths == { job[j].audioPath : j \in { k \in stale : Has(job[k], "audioPath") } }
       IN  /\ jobs' = jobs \ stale
           /\ files' = IF unlinkOk THEN files \ paths ELSE files
           /\ cleanupErrors' =
                  IF unlinkOk THEN cleanupErrors
                  ELSE cleanupErrors \cup
                           { j \in stale : Has(job[j], "audioPath") /\ job[j].audioPath \in files }
    /\ UNCHANGED <<job, task, hist, attempts, timers, onnxRuntime, pending,
                   bgInstalls, http, now, poll, client>>

\* the instants after `now` at which a callback is due
NextInstants ==
    { t \in { tm.due : tm \in timers } \cup { (now \div SweepInterval + 1) * SweepInterval } :
        t > now }

SweepTick ==
    /\ now' = CHOOSE t \in NextInstants : \A u \in NextInstants : t <= u
    /\ now' <= MaxSweeps * SweepInterval
    /\ UNCHANGED <<jobs, job, task, hist, attempts, timers, files, onnxRuntime,
                   pending, bgInstalls, http, poll, lastSweep, cleanupErrors, client>>

NextSweep ==
    \/ \E body \in Requests : PostRejected(body.text, body.voice)
    \/ \E body \in Requests : PostAwaitsInstall(body.text, body.voice)
    \/ \E body \in Requests, m \in BOOLEAN, c \in BOOLEAN :
          PostAccepted(body.text, body.voice, m, c)
    \/ \E req \in BagToSet(pending), i \in BOOLEAN, m \in BOOLEAN, c \in BOOLEAN :
          PostInstallSettled(req, i, m, c)
    \/ InstallEndpoint
    \/ \E i \in BOOLEAN : BgInstallSettled(i)
    \/ \E j \in 1..Len(job), out \in SessionOutcomes : OnnxSessionSettled(j, out)
    \/ \E j \in 1..Len(job), out \in InferenceOutcomes : OnnxRunSettled(j, out)
    \/ \E j \in 1..Len(job), out \in FetchOutcomes : GoogleFetchSettled(j, out)
    \/ \E j \in 1..Len(job), out \in BodyOutcomes : GoogleBodySettled(j, out)
    \/ \E tm \in timers, u \in BOOLEAN : CleanupTimerFires(tm, u)
    \/ \E u \in BOOLEAN : Sweep(u)
    \/ \E id \in PollIds : GetJob(id)
    \/ SweepTick

SpecSweep == Init /\ [][NextSweep]_vars

(* The scheduling of the server with the sweep: the install a request or   *)
(* the startup waits for ends, every backend call a task awaits settles    *)
(* and the task resumes, a due timer and a due sweep fire, and the client  *)
(* keeps polling.                                                          *)
FairSweep ==
    /\ SpecSweep
    /\ WF_vars(\E req \in BagToSet(pending), i \in BOOLEAN, m \in BOOLEAN, c \in BOOLEAN :
                  PostInstallSettled(req, i, m, c))
    /\ WF_vars(\E i \in BOOLEAN : BgInstallSettled(i))
    /\ WF_vars(\E j \in 1..Len(job), out \in SessionOutcomes : OnnxSessionSettled(j, out))
    /\ WF_vars(\E j \in 1..Len(job), out \in InferenceOutcomes : OnnxRunSettled(j, out))
    /\ WF_vars(\E j \in 1..Len(job), out \in FetchOutcomes : GoogleFetchSettled(j, out))
    /\ WF_vars(\E j \in 1..Len(job), out \in BodyOutcomes : GoogleBodySettled(j, out))
    /\ WF_vars(\E tm \in timers, u \in BOOLEAN : CleanupTimerFires(tm, u))
    /\ WF_vars(\E u \in BOOLEAN : Sweep(u))
    /\ \A id \in PollIds : WF_vars(GetJob(id))

(* Two requests in flight in the server with the sweep.  The runtime is    *)
(* taken to have loaded at startup, so no request waits for an install,    *)
(* and the requests that leave the store alone (a rejected POST, a GET)    *)
(* are left out.                                                           *)

MaxPairJobs == 2

InitPair ==
    /\ jobs = {}
    /\ job = <<>>
    /\ task = <<>>
    /\ hist = <<>>
    /\ attempts = <<>>
    /\ timers = {}
    /\ files = {}
    /\ onnxRuntime = TRUE
    /\ pending = EmptyBag
    /\ bgInstalls = 0
    /\ http = [text |-> NoText, code |-> 0]
    /\ now = 0
    /\ poll = NoPoll
    /\ lastSweep = 0
    /\ cleanupErrors = {}
    /\ client = NoClient

PairPostAccepted(text, voice, modelsAvailable, configOk) ==
    /\ Validate(text) = "ok"
    /\ onnxRuntime
    /\ Accepted < MaxPairJobs
    /\ Dispatch(text, VoiceOrDefault(voice), onnxRuntime, modelsAvailable, configOk)
    /\ UNCHANGED <<onnxRuntime, pending, bgInstalls>>

NextPair ==
    \/ \E body \in Requests, m \in BOOLEAN, c \in BOOLEAN :
          PairPostAccepted(body.text, body.voice, m, c)
    \/ \E j \in 1..Len(job), out \in SessionOutcomes : OnnxSessionSettled(j, out)
    \/ \E j \in 1..Len(job), out \in InferenceOutcomes : OnnxRunSettled(j, out)
    \/ \E j \in 1..Len(job), out \in FetchOutcomes : GoogleFetchSettled(j, out)
    \/ \E j \in 1..Len(job), out \in BodyOutcomes : GoogleBodySettled(j, out)
    \/ \E tm \in timers, u \in BOOLEAN : CleanupTimerFires(tm, u)
    \/ \E u \in BOOLEAN : Sweep(u)
    \/ SweepTick

SpecPair == InitPair /\ [][NextPair]_vars

---------------------------------------------------------------------------
(* The server that requires a model (src/unnamed/part_002): POST /api/tts  *)
(* answers 400 when no model is found, every job starts in processOnnxTTS, *)
(* which probes the runtime itself and calls fallbackToGoogleTTS from      *)
(* inside, and the store is swept every hour.  onnxRuntime stands for      *)
(* whether require('onnxruntime-node') succeeds.                           *)

GatedOnnxFile(id) == <<id, ".wav">>

GatedGoogleFile(id) == <<id, ".mp3">>

\* the six assignments after `await saveAsWav(...)`
GatedOnnxCompleted(o, t) ==
    LET o1 == [o EXCEPT !.status = "completed", !.progress = 100]
        o2 == Put(o1, "audioUrl", AudioUrl(GatedOnnxFile(o.id)))
        o3 == Put(o2, "audioPath", GatedOnnxFile(o.id))
        o4 == Put(o3, "completedAt", t)
    IN  Put(o4, "modelUsed", "model.onnx")

GatedFallbackCompleted(o, t) ==
    LET o1 == [o EXCEPT !.status = "completed", !.progress = 100]
        o2 == Put(o1, "audioUrl", AudioUrl(GatedGoogleFile(o.id)))
        o3 == Put(o2, "audioPath", GatedGoogleFile(o.id))
    IN  Put(o3, "completedAt", t)

\* job.status = 'failed'; job.error = `Both ONNX and fallback failed: ${error.message}`
GatedFallbackFailed(o, message) ==
    Put([o EXCEPT !.status = "failed"], "error",
        <<"Both ONNX and fallback failed: ", message>>)

\* fallbackToGoogleTTS up to `await fetch(ttsUrl, ...)`
GatedFallbackBegin(r, inMap) ==
    IF ~inMap THEN Run(r.obj, r.hist, "done", r.att)
    ELSE LET o1 == FallbackStarted(r.obj)
             h1 == Append(r.hist, Seen(o1))
         IN  IF r.obj.text.wellFormed
             THEN Run(o1, h1, "google_fetch",
                      [r.att EXCEPT !.google = "running", !.started = @ + 1])
             ELSE LET o2 == GatedFallbackFailed(o1, "URI malformed")
                  IN  Run(o2, Append(h1, Seen(o2)), "done",
                          [r.att EXCEPT !.google = "failed", !.started = @ + 1])

\* processOnnxTTS leaves its try block for `return await fallbackToGoogleTTS(...)`
GatedOnnxGivesUp(r, inMap) ==
    GatedFallbackBegin([r EXCEPT !.att.onnx = "failed"], inMap)

\* processOnnxTTS up to `await ort.InferenceSession.create(modelPath)`: the
\* probe checkOnnxSupport() follows the assignments of 'processing' and 10
GatedOnnxBegin(r, inMap, runtimeLoaded, configOk) ==
    IF ~inMap THEN Run(r.obj, r.hist, "done", r.att)
    ELSE LET a1 == [r.att EXCEPT !.onnx = "running", !.started = @ + 1,
                                 !.probe = runtimeLoaded]
             o1 == OnnxStarted(r.obj)
             h1 == Append(r.hist, Seen(o1))
             o2 == LoadingModel(o1)
             h2 == Append(h1, Seen(o2))
             o3 == ModelFilesRead(o2)
         IN  IF ~runtimeLoaded THEN GatedOnnxGivesUp(Run(o1, h1, r.task, a1), inMap)
             ELSE IF ~configOk THEN GatedOnnxGivesUp(Run(o2, h2, r.task, a1), inMap)
             ELSE Run(o3, Append(h2, Seen(o3)), "onnx_create", a1)

GatedOnnxAfterCreate(r, outcome, inMap) ==
    IF outcome = "rejected" THEN GatedOnnxGivesUp(r, inMap)
    ELSE LET o1 == GeneratingAudio(r.obj)
             h1 == Append(r.hist, Seen(o1))
             o2 == TextConverted(o1)
         IN  Run(o2, Append(h1, Seen(o2)), "onnx_run", r.att)

GatedOnnxAfterRun(r, outcome, inMap, t) ==
    IF outcome = "run_rejected" THEN GatedOnnxGivesUp(r, inMap)
    ELSE LET o1 == Finalizing(r.obj)
             h1 == Append(r.hist, Seen(o1))
             o2 == GatedOnnxCompleted(o1, t)
         IN  IF outcome = "completed"
             THEN Run(o2, Append(h1, Seen(o2)), "done", [r.att EXCEPT !.onnx = "ok"])
             ELSE GatedOnnxGivesUp(Run(o1, h1, r.task, r.att), inMap)

GatedFallbackAfterFetch(r, outcome) ==
    IF outcome = "ok" THEN Run(r.obj, r.hist, "google_body", r.att)
    ELSE LET o1 == GatedFallbackFailed(r.obj, IF outcome = "not_ok"
                                              THEN "TTS API error: 500" ELSE "fetch failed")
         IN  Run(o1, Append(r.hist, Seen(o1)), "done", [r.att EXCEPT !.google = "failed"])

GatedFallbackAfterBody(r, outcome, t) ==
    LET o1 == IF outcome = "completed" THEN GatedFallbackCompleted(r.obj, t)
              ELSE GatedFallbackFailed(r.obj, IF outcome = "rejected"
                                              THEN "body stream failed" ELSE "write failed")
    IN  Run(o1, Append(r.hist, Seen(o1)), "done",
            [r.att EXCEPT !.google = IF outcome = "completed" THEN "ok" ELSE "failed"])

\* the handler returns 400: at one of its two checks of the text, or
\* because the model directory has no .onnx with a .json
GatedPostRejected(text, voice, modelsAvailable) ==
    /\ Validate(text) # "ok" \/ ~modelsAvailable
    /\ http' = BadRequest(text, IF Validate(text) # "ok" THEN Validate(text)
                                ELSE "ONNX models not available")
    /\ UNCHANGED <<jobs, job, task, hist, attempts, timers, files, onnxRuntime,
                   pending, bgInstalls, now, poll, lastSweep, cleanupErrors, client>>

\* the handler stores the job, runs processOnnxTTS to its first await and responds
GatedPostAccepted(text, voice, configOk) ==
    /\ Validate(text) = "ok"
    /\ Accepted < MaxJobs
    /\ LET id == Len(job) + 1
           o0 == Put(NewJob(id, text, VoiceOrDefault(voice), now), "ttsProvider", OnnxProvider)
           started == GatedOnnxBegin(Run(o0, <<Seen(o0)>>, "none", Probed(FALSE, TRUE)),
                                     TRUE, onnxRuntime, configOk)
       IN  /\ jobs' = jobs \cup {id}
           /\ job' = Append(job, started.obj)
           /\ task' = Append(task, started.task)
           /\ hist' = Append(hist, started.hist)
           /\ attempts' = Append(attempts, started.att)
           /\ http' = JobCreatedResponse(started.obj)
    /\ UNCHANGED <<timers, files, onnxRuntime, pending, bgInstalls, now, poll, lastSweep, cleanupErrors, client>>

GatedOnnxSessionSettled(j, outcome) ==
    /\ task[j] = "onnx_create"
    /\ Commit(j, GatedOnnxAfterCreate(Current(j), outcome, j \in jobs))
    /\ UNCHANGED <<jobs, timers, files, onnxRuntime, pending, bgInstalls, http, now, poll, lastSweep, cleanupErrors, client>>

GatedOnnxRunSettled(j, outcome) ==
    /\ task[j] = "onnx_run"
    /\ Commit(j, GatedOnnxAfterRun(Current(j), outcome, j \in jobs, now))
    /\ files' = IF outcome \in {"completed", "save_failed_partial"}
                THEN files \cup {GatedOnnxFile(j)} ELSE files
    /\ timers' = IF outcome = "completed"
                 THEN timers \cup {Timer(j, GatedOnnxFile(j), now)} ELSE timers
    /\ UNCHANGED <<jobs, onnxRuntime, pending, bgInstalls, http, now, poll, lastSweep, cleanupErrors, client>>

GatedGoogleFetchSettled(j, outcome) ==
    /\ task[j] = "google_fetch"
    /\ Commit(j, GatedFallbackAfterFetch(Current(j), outcome))
    /\ UNCHANGED <<jobs, timers, files, onnxRuntime, pending, bgInstalls, http, now, poll, lastSweep, cleanupErrors, client>>

GatedGoogleBodySettled(j, outcome) ==
    /\ task[j] = "google_body"
    /\ Commit(j, GatedFallbackAfterBody(Current(j), outcome, now))
    /\ files' = IF outcome \in {"completed", "write_failed_partial"}
                THEN files \cup {GatedGoogleFile(j)} ELSE files
    /\ timers' = IF outcome = "completed"
                 THEN timers \cup {Timer(j, GatedGoogleFile(j), now)} ELSE timers
    /\ UNCHANGED <<jobs, onnxRuntime, pending, bgInstalls, http, now, poll, lastSweep, cleanupErrors, client>>

NextGated ==
    \/ \E body \in Requests, m \in BOOLEAN : GatedPostRejected(body.text, body.voice, m)
    \/ \E body \in Requests, c \in BOOLEAN : GatedPostAccepted(body.text, body.voice, c)
    \/ InstallEndpoint
    \/ \E i \in BOOLEAN : BgInstallSettled(i)
    \/ \E j \in 1..Len(job), out \in SessionOutcomes : GatedOnnxSessionSettled(j, out)
    \/ \E j \in 1..Len(job), out \in InferenceOutcomes : GatedOnnxRunSettled(j, out)
    \/ \E j \in 1..Len(job), out \in FetchOutcomes : GatedGoogleFetchSettled(j, out)
    \/ \E j \in 1..Len(job), out \in BodyOutcomes : GatedGoogleBodySettled(j, out)
    \/ \E tm \in timers, u \in BOOLEAN : CleanupTimerFires(tm, u)
    \/ \E u \in BOOLEAN : Sweep(u)
    \/ \E id \in PollIds : GetJob(id)
    \/ SweepTick

SpecGated == Init /\ [][NextGated]_vars

---------------------------------------------------------------------------
(* The Piper server (src/unnamed/part_003): the primary backend is the     *)
(* Piper CLI, run as a child process.  A request that finds Piper not      *)
(* installable, or no model, is answered by fallbackToGoogleTTS(res, text) *)
(* itself, with no job; a job whose Piper run fails goes to                *)
(* fallbackJobToGoogle, which is the fallbackToGoogleTTS of the servers    *)
(* above.  onnxRuntime stands for checkPiperStatus().available, and an     *)
(* entry of pending carries the stage at which its handler is suspended.   *)

PiperMaxTextLength == 1000

PiperRequests ==
    { [text |-> NoText, voice |-> "undefined"],
      [text |-> Text(1, FALSE), voice |-> "nb"],
      [text |-> Text(PiperMaxTextLength, TRUE), voice |-> "undefined"],
      [text |-> Text(PiperMaxTextLength + 1, TRUE), voice |-> "nb"] }

PiperValidate(text) ==
    IF Falsy(text) THEN "Text is required"
    ELSE IF text.len > PiperMaxTextLength THEN "Text is too long. Maximum 1000 characters."
    ELSE "ok"

PiperFile(id) == <<id, "_piper.wav">>

\* `google_${Date.now()}.mp3`
DirectFile(t) == <<"google_", t, ".mp3">>

PiperNewJob(id, text, voice, t) ==
    Put(NewJob(id, text, voice, t), "ttsProvider", "Piper CLI")

\* the seven assignments after the checks of the output file
PiperCompleted(o, t) ==
    LET o1 == [o EXCEPT !.status = "completed", !.progress = 100]
        o2 == Put(o1, "audioUrl", AudioUrl(PiperFile(o.id)))
        o3 == Put(o2, "audioPath", PiperFile(o.id))
        o4 == Put(o3, "completedAt", t)
        o5 == Put(o4, "modelUsed", "model.onnx")
    IN  Put(o5, "ttsProvider", "Piper CLI (success)")

\* job.progress = 40; job.status = 'generating_audio'
PiperGenerating(o) == [o EXCEPT !.progress = 40, !.status = "generating_audio"]

\* processPiperTTS up to the await of the child process's 'close' event;
\* piperOk is whether piperPath names a file, modelFound whether the model
\* directory lists an .onnx file
PiperBegin(r, inMap, piperOk, modelFound) ==
    IF ~inMap THEN Run(r.obj, r.hist, "done", r.att)
    ELSE LET a1 == [r.att EXCEPT !.onnx = "running", !.started = @ + 1]
             o1 == OnnxStarted(r.obj)
             h1 == Append(r.hist, Seen(o1))
             o2 == LoadingModel(o1)
             h2 == Append(h1, Seen(o2))
             o3 == PiperGenerating(o2)
         IN  IF ~piperOk THEN Run(o1, h1, "onnx_rejected", a1)
             ELSE IF ~modelFound THEN Run(o2, h2, "onnx_rejected", a1)
             ELSE Run(o3, Append(h2, Seen(o3)), "piper_close", a1)

\* how the child process ends, and what it leaves at audioPath
PiperOutcomes ==
    { "completed", "spawn_error", "exit_nonzero", "exit_nonzero_file", "no_file",
      "empty_file" }

\* processPiperTTS from the end of the child process to its own end
PiperAfterClose(r, outcome, inMap, t) ==
    IF outcome \in {"spawn_error", "exit_nonzero", "exit_nonzero_file"}
    THEN OnnxRejected(r, inMap)
    ELSE LET o1 == Finalizing(r.obj)
             h1 == Append(r.hist, Seen(o1))
             o2 == PiperCompleted(o1, t)
         IN  IF outcome = "completed"
             THEN Run(o2, Append(h1, Seen(o2)), "done", [r.att EXCEPT !.onnx = "ok"])
             ELSE OnnxRejected(Run(o1, h1, r.task, r.att), inMap)

\* return res.status(500).json({ error: `TTS failed: ${error.message}` })
DirectFailed(text, message) ==
    [text |-> text, code |-> 500, error |-> <<"TTS failed: ", message>>]

\* return res.json({ message: 'TTS completed (Google fallback)', audioUrl, ... })
DirectCompleted(text, file) ==
    [text |-> text, code |-> 200, message |-> "TTS completed (Google fallback)",
     audioUrl |-> AudioUrl(file), ttsProvider |-> GoogleProvider, status |-> "completed"]

\* fallbackToGoogleTTS(res, text) up to `await fetch(ttsUrl, ...)`; rest is
\* the other suspended requests
DirectBegin(text, voice, rest) ==
    /\ IF text.wellFormed
       THEN /\ pending' = rest (+) SetToBag({[text |-> text, voice |-> voice,
                                              stage |-> "direct_fetch",
                                              file |-> DirectFile(now)]})
            /\ UNCHANGED http
       ELSE /\ pending' = rest
            /\ http' = DirectFailed(text, "URI malformed")
    /\ UNCHANGED <<jobs, job, task, hist, attempts>>

(* POST /api/tts from the model check to its response or its suspension in *)
(* the direct fallback.  No await separates the handler's checks from      *)
(* those of processPiperTTS, which therefore finds Piper and the model.    *)
PiperDispatch(text, voice, rest, modelsAvailable) ==
    IF ~modelsAvailable THEN DirectBegin(text, voice, rest)
    ELSE LET id == Len(job) + 1
             o0 == PiperNewJob(id, text, voice, now)
             started == PiperBegin(Run(o0, <<Seen(o0)>>, "none", Probed(TRUE, TRUE)),
                                   TRUE, TRUE, modelsAvailable)
             settled ==
                 IF started.task = "onnx_rejected" THEN OnnxRejected(started, TRUE)
                 ELSE started
         IN  /\ jobs' = jobs \cup {id}
             /\ job' = Append(job, settled.obj)
             /\ task' = Append(task, settled.task)
             /\ hist' = Append(hist, settled.hist)
             /\ attempts' = Append(attempts, settled.att)
             /\ http' = JobCreatedResponse(started.obj)
             /\ pending' = rest

PiperPostRejected(text, voice) ==
    /\ PiperValidate(text) # "ok"
    /\ http' = BadRequest(text, PiperValidate(text))
    /\ UNCHANGED <<jobs, job, task, hist, attempts, timers, files, onnxRuntime,
                   pending, bgInstalls, now, poll, lastSweep, cleanupErrors, client>>

\* checkPiperStatus() finds Piper not available: `await installPiper()`
PiperPostAwaitsInstall(text, voice) ==
    /\ PiperValidate(text) = "ok"
    /\ ~onnxRuntime
    /\ Accepted < MaxJobs
    /\ pending' = pending (+) SetToBag({[text |-> text, voice |-> VoiceOrDefault(voice),
                                         stage |-> "install"]})
    /\ UNCHANGED <<jobs, job, task, hist, attempts, timers, files, onnxRuntime,
                   bgInstalls, http, now, poll, lastSweep, cleanupErrors, client>>

PiperPostAccepted(text, voice, modelsAvailable) ==
    /\ PiperValidate(text) = "ok"
    /\ onnxRuntime
    /\ Accepted < MaxJobs
    /\ PiperDispatch(text, VoiceOrDefault(voice), pending, modelsAvailable)
    /\ UNCHANGED <<timers, files, onnxRuntime, bgInstalls, now, poll, lastSweep, cleanupErrors, client>>

\* installPiper() of a suspended request ends: without success the handler
\* answers through the direct fallback
PiperInstallSettled(req, success, modelsAvailable) ==
    /\ BagIn(req, pending)
    /\ req.stage = "install"
    /\ onnxRuntime' = (onnxRuntime \/ success)
    /\ IF success
       THEN PiperDispatch(req.text, req.voice, pending (-) SetToBag({req}),
                          modelsAvailable)
       ELSE DirectBegin(req.text, req.voice, pending (-) SetToBag({req}))
    /\ UNCHANGED <<timers, files, bgInstalls, now, poll, lastSweep, cleanupErrors, client>>

\* fallbackToGoogleTTS(res, text) from fetch settling to `await response.arrayBuffer()`
DirectFetchSettled(req, outcome) ==
    /\ BagIn(req, pending)
    /\ req.stage = "direct_fetch"
    /\ IF outcome = "ok"
       THEN /\ pending' = (pending (-) SetToBag({req}))
                              (+) SetToBag({[req EXCEPT !.stage = "direct_body"]})
            /\ UNCHANGED http
       ELSE /\ pending' = pending (-) SetToBag({req})
            /\ http' = DirectFailed(req.text, IF outcome = "not_ok"
                                              THEN "Google TTS error: 500" ELSE "fetch failed")
    /\ UNCHANGED <<jobs, job, task, hist, attempts, timers, files, onnxRuntime,
                   bgInstalls, now, poll, lastSweep, cleanupErrors, client>>

\* fallbackToGoogleTTS(res, text) from arrayBuffer settling to its response:
\* the file is written, and nothing records it
DirectBodySettled(req, outcome) ==
    /\ BagIn(req, pending)
    /\ req.stage = "direct_body"
    /\ pending' = pending (-) SetToBag({req})
    /\ files' = IF outcome \in {"completed", "write_failed_partial"}
                THEN files \cup {req.file} ELSE files
    /\ http' = IF outcome = "completed" THEN DirectCompleted(req.text, req.file)
               ELSE DirectFailed(req.text, IF outcome = "rejected"
                                           THEN "body stream failed" ELSE "write failed")
    /\ UNCHANGED <<jobs, job, task, hist, attempts, timers, onnxRuntime, bgInstalls,
                   now, poll, lastSweep, cleanupErrors, client>>

PiperClosed(j, outcome) ==
    /\ task[j] = "piper_close"
    /\ Commit(j, PiperAfterClose(Current(j), outcome, j \in jobs, now))
    /\ files' = IF outcome \in {"completed", "exit_nonzero_file", "empty_file"}
                THEN files \cup {PiperFile(j)} ELSE files
    /\ timers' = IF outcome = "completed"
                 THEN timers \cup {Timer(j, PiperFile(j), now)} ELSE timers
    /\ UNCHANGED <<jobs, onnxRuntime, pending, bgInstalls, http, now, poll, lastSweep, cleanupErrors, client>>

\* piperInstalled is false at startup, and app.listen's callback has called
\* installPiper()
InitPiper ==
    /\ jobs = {}
    /\ job = <<>>
    /\ task = <<>>
    /\ hist = <<>>
    /\ attempts = <<>>
    /\ timers = {}
    /\ files = {}
    /\ onnxRuntime = FALSE
    /\ pending = EmptyBag
    /\ bgInstalls = 1
    /\ http = [text |-> NoText, code |-> 0]
    /\ now = 0
    /\ poll = NoPoll
    /\ lastSweep = 0
    /\ cleanupErrors = {}
    /\ client = NoClient

NextPiper ==
    \/ \E body \in PiperRequests : PiperPostRejected(body.text, body.voice)
    \/ \E body \in PiperRequests : PiperPostAwaitsInstall(body.text, body.voice)
    \/ \E body \in PiperRequests, m \in BOOLEAN :
          PiperPostAccepted(body.text, body.voice, m)
    \/ \E req \in BagToSet(pending), i \in BOOLEAN, m \in BOOLEAN :
          PiperInstallSettled(req, i, m)
    \/ \E req \in BagToSet(pending), out \in FetchOutcomes : DirectFetchSettled(req, out)
    \/ \E req \in BagToSet(pending), out \in BodyOutcomes : DirectBodySettled(req, out)
    \/ InstallEndpoint
    \/ \E i \in BOOLEAN : BgInstallSettled(i)
    \/ \E j \in 1..Len(job), out \in PiperOutcomes : PiperClosed(j, out)
    \/ \E j \in 1..Len(job), out \in FetchOutcomes : GoogleFetchSettled(j, out)
    \/ \E j \in 1..Len(job), out \in BodyOutcomes : GoogleBodySettled(j, out)
    \/ \E tm \in timers, u \in BOOLEAN : CleanupTimerFires(tm, u)
    \/ \E u \in BOOLEAN : Sweep(u)
    \/ \E id \in PollIds : GetJob(id)
    \/ SweepTick

SpecPiper == InitPiper /\ [][NextPiper]_vars

---------------------------------------------------------------------------
(* The client polling the server of src/railway/server.js, whose runtime   *)
(* is taken to have loaded at startup.  The client asks for the job the    *)
(* server creates or for an id the server never gave.                      *)

InitClient ==
    /\ jobs = {}
    /\ job = <<>>
    /\ task = <<>>
    /\ hist = <<>>
    /\ attempts = <<>>
    /\ timers = {}
    /\ files = {}
    /\ onnxRuntime = TRUE
    /\ pending = EmptyBag
    /\ bgInstalls = 0
    /\ http = [text |-> NoText, code |-> 0]
    /\ now = 0
    /\ poll = NoPoll
    /\ lastSweep = 0
    /\ cleanupErrors = {}
    /\ client = NoClient

NextClient ==
    \/ \E body \in Requests, m \in BOOLEAN, c \in BOOLEAN :
          PostAccepted(body.text, body.voice, m, c)
    \/ \E j \in 1..Len(job), out \in SessionOutcomes : OnnxSessionSettled(j, out)
    \/ \E j \in 1..Len(job), out \in InferenceOutcomes : OnnxRunSettled(j, out)
    \/ \E j \in 1..Len(job), out \in FetchOutcomes : GoogleFetchSettled(j, out)
    \/ \E j \in 1..Len(job), out \in BodyOutcomes : GoogleBodySettled(j, out)
    \/ \E tm \in timers, u \in BOOLEAN : CleanupTimerFires(tm, u)
    \/ Tick
    \/ \E id \in PollIds, n \in 0..MaxPolls : PollStart(id, n)
    \/ \E d \in BOOLEAN : PollAnswered(d)
    \/ PollSleepDone

SpecClient == InitClient /\ [][NextClient]_vars

(* The scheduling of the client: every fetch settles, with a response or   *)
(* with an error, and every sleep resolves.                                *)
FairClient ==
    /\ SpecClient
    /\ WF_vars(\E d \in BOOLEAN : PollAnswered(d))
    /\ WF_vars(PollSleepDone)

---------------------------------------------------------------------------
(* Properties                                                              *)

Created == 1..Len(job)

\* a string built from parts is non-empty when one of its parts is
NonEmpty(str) == \E i \in 1..Len(str) : str[i] # ""

\* the positions of hist[j] after which the progress written is lower
Drops(j) == { i \in 1..(Len(hist[j]) - 1) : hist[j][i + 1][2] < hist[j][i][2] }

(* C1: a job whose ONNX attempt failed, at whatever stage, has had its     *)
(* fallback started, and once the fallback has succeeded the job is        *)
(* 'completed' with ttsProvider naming Google TTS.                         *)
C1_FallbackSuccessCompletes ==
    \A j \in Created :
        attempts[j].onnx = "failed" =>
            /\ attempts[j].google # "none"
            /\ attempts[j].google = "ok" =>
                   /\ job[j].status = "completed"
                   /\ job[j].ttsProvider = GoogleProvider

\* the ONNX attempt failed while finalizing and the fallback completed the job
C1_Witness ==
    \E j \in Created :
        /\ attempts[j].onnx = "failed"
        /\ attempts[j].google = "ok"
        /\ \E i \in 1..Len(hist[j]) : hist[j][i] = <<"finalizing", 90>>
        /\ job[j].status = "completed"

(* C2: a job whose ONNX attempt and Google attempt both failed is 'failed' *)
(* with a non-empty error, its task has ended, and two attempts were       *)
(* started, not more.                                                      *)
C2_BothFailIsFailed ==
    \A j \in Created :
        (attempts[j].onnx = "failed" /\ attempts[j].google = "failed") =>
            /\ job[j].status = "failed"
            /\ Has(job[j], "error") /\ NonEmpty(job[j].error)
            /\ task[j] = "done"
            /\ attempts[j].started = 2

C2_Witness ==
    \E j \in Created :
        /\ attempts[j].onnx = "failed"
        /\ attempts[j].google = "failed"
        /\ job[j].status = "failed"

(* C3: every job in the store has audioUrl exactly when it is 'completed'  *)
(* and error exactly when it is 'failed', so neither while it is not       *)
(* terminal.                                                               *)
C3_ArtifactAndErrorMatchStatus ==
    \A j \in jobs :
        /\ Has(job[j], "audioUrl") <=> job[j].status = "completed"
        /\ Has(job[j], "error") <=> job[j].status = "failed"

\* a job completed by the ONNX attempt is in the store with its audioUrl
C3_Witness ==
    \E j \in jobs :
        /\ job[j].status = "completed"
        /\ attempts[j].onnx = "ok"
        /\ Has(job[j], "audioUrl") /\ ~Has(job[j], "error")

\* what C4 keeps of a job object
Outcome(o) == <<o.status, IF Has(o, "completedAt") THEN <<o.completedAt>> ELSE <<>>>>

\* a terminal status is the last one a task writes
TerminalWrittenLast ==
    \A j \in Created : \A i \in 1..(Len(hist[j]) - 1) : hist[j][i][1] \notin Terminal

\* no step changes the status or the completedAt of a terminal job
TerminalUnchanged ==
    \A j \in Created :
        job[j].status \in Terminal => Outcome(job'[j]) = Outcome(job[j])

(* C4: once a job is 'completed' or 'failed', no step changes its status   *)
(* or its completedAt, and no task writes anything after a terminal        *)
(* status; the cleanup timer only removes the job from the store.          *)
C4_TerminalIsFinal == [](TerminalWrittenLast) /\ [][TerminalUnchanged]_vars

\* a completed job whose cleanup timer has fired and removed it
C4_Witness ==
    \E j \in Created :
        /\ job[j].status = "completed"
        /\ j \notin jobs
        /\ now > job[j].completedAt

(* C5: over the values a job's progress takes, it decreases at most once,  *)
(* and then at the start of the fallback, where it becomes 60.             *)
C5_ProgressMonotoneButFallback ==
    \A j \in Created :
        /\ Cardinality(Drops(j)) <= 1
        /\ \A i \in Drops(j) :
               /\ hist[j][i + 1] = <<"generating_audio", 60>>
               /\ attempts[j].onnx = "failed"
               /\ hist[j][i][1] \notin Terminal

\* the ONNX attempt failed at progress 90 and the fallback reset it to 60
C5_Witness ==
    \E j \in Created : \E i \in Drops(j) :
        hist[j][i] = <<"finalizing", 90>> /\ hist[j][i + 1] = <<"generating_audio", 60>>

(* C6: in every state of a job, progress is 0 only with status 'queued',   *)
(* and progress is 100 exactly with status 'completed'.                    *)
C6_ProgressMatchesStatus ==
    \A j \in Created :
        /\ job[j].progress = 0 => job[j].status = "queued"
        /\ job[j].progress = 100 <=> job[j].status = "completed"
        /\ \A i \in 1..Len(hist[j]) :
               /\ hist[j][i][2] = 0 => hist[j][i][1] = "queued"
               /\ hist[j][i][2] = 100 <=> hist[j][i][1] = "completed"

\* a job completed by the fallback, still in the store
C6_Witness ==
    \E j \in jobs :
        /\ job[j].status = "completed" /\ job[j].progress = 100
        /\ attempts[j].google = "ok"
        /\ hist[j][1] = <<"queued", 0>>

\* a POST /api/tts exchange whose text is missing or empty answers 400 and
\* leaves the store, the job objects, the tasks, the timers and the files alone
EmptyTextRejected ==
    (http' # http /\ Falsy(http'.text)) =>
        /\ http'.code = 400
        /\ UNCHANGED <<jobs, job, task, hist, attempts, timers, files, pending>>

(* C7: a POST /api/tts whose text is missing or empty is answered 400, and *)
(* the step that answers it creates no job and starts no attempt, no       *)
(* install and no timer.                                                   *)
C7_EmptyTextCreatesNoJob == [][EmptyTextRejected]_vars

\* an empty text was rejected while a job was in the store
C7_Witness ==
    /\ http.code = 400
    /\ Falsy(http.text)
    /\ http.error = "Text is required"
    /\ jobs # {}

\* the requests sent so far that the claim speaks of got the answer it says
BoundaryAnswer ==
    /\ (http.code # 0 /\ http.text = Text(MaxTextLength, TRUE)) =>
           (http.code = 200 /\ http.jobId \in Created)
    /\ (http.code # 0 /\ http.text = Text(MaxTextLength + 1, TRUE)) =>
           http.code = 400

(* C8: a text of the maximum length, 500 characters, is accepted and       *)
(* becomes a job; a text of 501 characters is answered 400.  This is the   *)
(* claim as stated; the debugging server, which has no length check,       *)
(* violates it.                                                            *)
C8_LengthBoundary == BoundaryAnswer

(* C9: the status in the response that accepts a POST /api/tts is          *)
(* 'queued'.  This is the claim as stated; the handler reads job.status    *)
(* after the task it started has run to its first await.                   *)
C9_AcceptanceSaysQueued == http.code = 200 => http.status = "queued"

(* C10: no POST /api/tts is suspended waiting for an install before its    *)
(* response, and the response is written while the job is not terminal.    *)
(* This is the claim as stated; the handler awaits installOnnxRuntime().   *)
C10_RespondsWithoutAwaiting ==
    /\ pending = EmptyBag
    /\ http.code = 200 => http.status \notin Terminal

(* C14: a GET /api/job/:jobId for an id that no POST /api/tts has created  *)
(* is answered 404 'Job not found', whatever the store holds.              *)
C14_UnknownIdIsNotFound ==
    (poll.code # 0 /\ poll.id \notin Created) =>
        (poll.code = 404 /\ poll.error = "Job not found")

\* an id never created was asked for while another job was in the store
C14_Witness ==
    /\ poll.code = 404
    /\ poll.id \notin Created
    /\ jobs # {}

(* C16: every job whose status is 'completed' or 'failed' has completedAt. *)
(* This is the claim as stated; the catch block of fallbackToGoogleTTS     *)
(* sets status and error and no completedAt.                               *)
C16_TerminalHasCompletedAt ==
    \A j \in Created : job[j].status \in Terminal => Has(job[j], "completedAt")

(* C17: every terminal job in the store, 'failed' as well as 'completed',  *)
(* has a deferred delete armed for it.  This is the claim as stated; the   *)
(* only setTimeout calls follow the assignments of 'completed'.            *)
C17_TerminalJobHasTimer ==
    \A j \in jobs : job[j].status \in Terminal => \E tm \in timers : tm.id = j

\* no job in the store was created more than the staleness threshold before
\* the last sweep
SweepLeavesNoStale == \A j \in jobs : lastSweep - job[j].createdAt <= StaleAfter

\* a job that has left the store does not come back
RemovedStaysRemoved == \A j \in Created : j \notin jobs => j \notin jobs'

\* a GET for a job that has left the store is answered 404
RemovedIsNotFound ==
    (poll' # poll /\ poll'.id \in Created /\ poll'.id \notin jobs) =>
        (poll'.code = 404 /\ poll'.error = "Job not found")

(* C13: a sweep removes from the store every job created more than an hour *)
(* before it, a removed job never returns to the store, and a GET for it   *)
(* is answered 404 'Job not found'.                                        *)
C13_SweepRemovesStaleJobs ==
    [](SweepLeavesNoStale) /\ [][RemovedStaysRemoved /\ RemovedIsNotFound]_vars

\* a failed job, for which no timer is armed, has left the store at the second
\* sweep after its creation and was asked for afterwards
C13_Witness ==
    \E j \in Created :
        /\ job[j].status = "failed"
        /\ j \notin jobs
        /\ lastSweep - job[j].createdAt > StaleAfter
        /\ poll.id = j /\ poll.code = 404

\* the record of a job outside the store, its files and its timers are left alone
NoWriteAfterDelete ==
    \A j \in Created :
        j \notin jobs =>
            /\ job'[j] = job[j]
            /\ hist'[j] = hist[j]
            /\ (files' \cap {OnnxFile(j), GoogleFile(j)}) \subseteq files
            /\ \A tm \in timers' \ timers : tm.id # j

(* C19: once a job has left the store, no task writes a field of it,       *)
(* writes a file for it or arms a timer for it.  This is the claim as      *)
(* stated; a task resumed after the sweep removed its job goes on writing  *)
(* to the object it holds.                                                 *)
C19_NoUpdateAfterDelete == [][NoWriteAfterDelete]_vars

\* the files the tasks of job j write
FilesOf(j) == { OnnxFile(j), GoogleFile(j) }

\* the jobs a step acts on: the record, the task, the store entry, the files
\* or the timers of the job change
Touched ==
    { j \in Created :
        \/ job'[j] # job[j]
        \/ hist'[j] # hist[j]
        \/ task'[j] # task[j]
        \/ attempts'[j] # attempts[j]
        \/ (j \in jobs) # (j \in jobs')
        \/ (files' \cap FilesOf(j)) # (files \cap FilesOf(j))
        \/ { tm \in timers' : tm.id = j } # { tm \in timers : tm.id = j } }

\* an accepted request adds one job and one store entry, under an id no job
\* had, and acts on no other job
CreatesOneJob ==
    Len(job') # Len(job) =>
        LET new == job'[Len(job')]
        IN  /\ Len(job') = Len(job) + 1
            /\ new.id \notin { job[j].id : j \in Created }
            /\ new.id \notin jobs
            /\ jobs' = jobs \cup {new.id}
            /\ Touched = {}

\* a step acts for one job; the sweep acts for each job it finds stale
OneJobPerStep ==
    \/ Cardinality(Touched) <= 1
    \/ /\ lastSweep' # lastSweep
       /\ \A j \in Touched : lastSweep' - job[j].createdAt > StaleAfter

\* a terminal job owes its status to its own attempts and names its own file
OwnOutcome ==
    \A j \in Created :
        /\ job[j].status = "completed" =>
               /\ attempts[j].onnx = "ok" \/ attempts[j].google = "ok"
               /\ job[j].audioPath \in FilesOf(j)
               /\ job[j].audioUrl = AudioUrl(job[j].audioPath)
        /\ job[j].status = "failed" => attempts[j].google = "failed"

C20_EveryJobEnds ==
    \A j \in 1..MaxJobs :
        (j \in Created) ~> (j \in Created /\ job[j].status \in Terminal)

\* the job has been in a stage of the primary backend
EnteredPrimary(j) ==
    \E i \in 1..Len(hist[j]) : hist[j][i][1] \in {"processing", "loading_model"}

(* C12: a job enters a stage of the primary backend exactly when the probe *)
(* of the runtime succeeded and a model was found, and then as its first   *)
(* step; otherwise no ONNX attempt is made and its first step is the       *)
(* fallback's.  This is the claim as stated; the server that requires a    *)
(* model sets 'processing' before it probes the runtime.                   *)
C12_PrimaryIffProbeAndAssets ==
    \A j \in Created :
        /\ EnteredPrimary(j) <=> (attempts[j].probe /\ attempts[j].assets)
        /\ EnteredPrimary(j) => hist[j][2] = <<"processing", 10>>
        /\ ~EnteredPrimary(j) =>
               /\ attempts[j].onnx = "none"
               /\ hist[j][2] = <<"generating_audio", 60>>

\* the error messages of a request rejected as invalid
InvalidRequest ==
    { "Text is required", "Text is too long. Maximum 500 characters.",
      "Text is too long. Maximum 1000 characters." }

(* C11: every response to a POST /api/tts either carries the id of a job   *)
(* that was created, or is a 400 saying that the text is missing or too    *)
(* long.  This is the claim as stated; the Piper server answers a request  *)
(* that finds no Piper or no model through the direct fallback: 200 with   *)
(* an audioUrl and no job, or 500.                                         *)
C11_JobAcceptedOrRequestInvalid ==
    http.code # 0 =>
        \/ /\ http.code = 200
           /\ "jobId" \in DOMAIN http
           /\ http.jobId \in Created
        \/ /\ http.code = 400
           /\ http.error \in InvalidRequest

(* C18: every file in the audio directory has a deferred delete armed for  *)
(* it or is the audioPath of a job in the store, where the sweep finds it: *)
(* a file with neither is deleted by nothing.  This is the claim as        *)
(* stated; the file of the direct fallback and the file a failed Piper run *)
(* leaves behind have neither.                                             *)
C18_EveryArtifactIsReclaimed ==
    \A f \in files :
        \/ \E tm \in timers : tm.path = f
        \/ \E j \in jobs : Has(job[j], "audioPath") /\ job[j].audioPath = f

\* the place of a status in the order of the stages
StatusRank(s) ==
    CASE s = "queued" -> 0
      [] s = "processing" -> 1
      [] s = "loading_model" -> 2
      [] s = "generating_audio" -> 3
      [] s = "finalizing" -> 4
      [] s = "completed" -> 5
      [] OTHER -> 6

\* from status a to status b: forward in the order of the stages, or from a
\* status that is not terminal to 'failed'
ForwardOrFailure(a, b) ==
    \/ b # "failed" /\ a # "failed" /\ StatusRank(a) <= StatusRank(b)
    \/ b = "failed" /\ a \notin Terminal

(* C21: over the values a job's status takes, each is followed by itself   *)
(* or a later stage of queued, processing, loading_model,                  *)
(* generating_audio, finalizing, completed, or, when it is not terminal,   *)
(* by 'failed'.  This is the claim as stated; the fallback that follows an *)
(* ONNX attempt failed while 'finalizing' sets 'generating_audio'.         *)
C21_StatusOnlyMovesForward ==
    \A j \in Created : \A i \in 1..(Len(hist[j]) - 1) :
        ForwardOrFailure(hist[j][i][1], hist[j][i + 1][1])

\* a step in which a cleanup timer fires leaves the timer's job out of the store
FiredTimerRemovesJob == \A tm \in timers \ timers' : tm.id \notin jobs'

(* C22: when a cleanup timer fires, its job is out of the store after the  *)
(* step, whether or not the file was deleted.  This is the claim as        *)
(* stated; jobs.delete(jobId) follows fs.unlinkSync(audioPath) inside the  *)
(* same try block, so an exception of unlinkSync skips it.                 *)
C22_TimerAlwaysRemovesJob == [][FiredTimerRemovesJob]_vars

\* the step fires timer tm after the sweep has removed the timer's job: the
\* entry is gone while the timer, armed once per job, had not fired
TimerAfterSweep(tm) == tm \in timers \ timers' /\ tm.id \notin jobs

\* the step is a sweep that finds job j stale after the job's timer has
\* fired: the job completed, which armed the timer, and no timer is left
SweepAfterTimer(j) ==
    /\ lastSweep' # lastSweep
    /\ Stale(job[j], now)
    /\ job[j].status = "completed"
    /\ \A tm \in timers : tm.id # j

\* the step leaves the store entry and the files of job j alone and logs no error
NoOpFor(j) ==
    /\ (j \in jobs') = (j \in jobs)
    /\ files' \cap FilesOf(j) = files \cap FilesOf(j)
    /\ (j \in cleanupErrors') = (j \in cleanupErrors)

\* the second of the two deletions does nothing, whatever the first left
SecondDeletionDoesNothing ==
    /\ \A tm \in timers : TimerAfterSweep(tm) => NoOpFor(tm.id)
    /\ \A j \in Created : SweepAfterTimer(j) => NoOpFor(j)

\* the second of the two deletions does nothing when the first removed the
\* entry and the file; otherwise it removes what the first left: the timer
\* the file the sweep could not unlink or the task wrote later, the sweep
\* the entry the timer's callback left when unlinkSync threw
SecondDeletionCompletesFirst ==
    /\ \A tm \in timers :
           TimerAfterSweep(tm) =>
               /\ tm.path \notin files => NoOpFor(tm.id)
               /\ tm.id \notin jobs'
               /\ files' \subseteq files /\ files \ files' \subseteq {tm.path}
    /\ \A j \in Created :
           SweepAfterTimer(j) =>
               /\ (j \notin jobs /\ files \cap FilesOf(j) = {}) => NoOpFor(j)
               /\ j \notin jobs'
               /\ files' \cap FilesOf(j) \subseteq files

AwaitingBackend == { "onnx_create", "onnx_run", "google_fetch", "google_body" }

(* C24: a failed ONNX attempt has been followed by the start of the        *)
(* fallback and a failed fallback by status 'failed'; no rejection of a    *)
(* task's promise is left without a handler; and a job in the store that   *)
(* is not terminal has a task suspended in a backend call, so none is      *)
(* stuck.                                                                  *)
C24_FailuresAreHandled ==
    \A j \in Created :
        /\ attempts[j].onnx = "failed" => attempts[j].google # "none"
        /\ attempts[j].google = "failed" => job[j].status = "failed"
        /\ task[j] # "onnx_rejected"
        /\ (j \in jobs /\ job[j].status \notin Terminal) => task[j] \in AwaitingBackend
        /\ task[j] \in AwaitingBackend => job[j].status \notin Terminal

\* the ONNX attempt failed after inference, while finalizing, and the
\* fallback failed in turn: the job is in the store, 'failed'
C24_Witness ==
    \E j \in jobs :
        /\ attempts[j].onnx = "failed"
        /\ attempts[j].google = "failed"
        /\ \E i \in 1..Len(hist[j]) : hist[j][i] = <<"finalizing", 90>>
        /\ job[j].status = "failed"
        /\ task[j] = "done"

\* the step is the end of job j's ONNX attempt in which saveAsWav threw,
\* before or after it wrote part of the file
PrimaryWriteFails(j) ==
    \E out \in {"save_failed", "save_failed_partial"} : OnnxRunSettled(j, out)

\* the step is the end of job j's fallback in which fs.writeFileSync threw
FallbackWriteFails(j) ==
    \E out \in {"write_failed", "write_failed_partial"} : GoogleBodySettled(j, out)

\* a failed write of the ONNX file starts the fallback, a failed write of the
\* fallback's file fails the job; neither completes the job or arms a timer
StorageFailureIsAttemptFailure ==
    \A j \in Created :
        /\ PrimaryWriteFails(j) =>
               /\ attempts'[j].onnx = "failed"
               /\ attempts'[j].google # "none"
               /\ \E i \in 1..Len(hist'[j]) :
                      /\ i > Len(hist[j])
                      /\ hist'[j][i] = <<"generating_audio", 60>>
               /\ job'[j].status # "completed"
               /\ ~Has(job'[j], "audioUrl")
               /\ timers' = timers
        /\ FallbackWriteFails(j) =>
               /\ attempts'[j].google = "failed"
               /\ job'[j].status = "failed"
               /\ Has(job'[j], "error") /\ NonEmpty(job'[j].error)
               /\ ~Has(job'[j], "audioUrl")
               /\ task'[j] = "done"
               /\ timers' = timers

(* C25: when saveAsWav throws, the step starts the fallback; when the      *)
(* fallback's writeFileSync throws, the step sets 'failed' with an error;  *)
(* neither step sets 'completed', an audioUrl or a timer.                  *)
C25_StorageFailureIsHandled == [][StorageFailureIsAttemptFailure]_vars

\* both writes failed after writing part of their files: the job is
\* 'failed' and the two partial files are in the audio directory
C25_Witness ==
    \E j \in jobs :
        /\ attempts[j].onnx = "failed"
        /\ OnnxFile(j) \in files
        /\ GoogleFile(j) \in files
        /\ job[j].status = "failed"

\* how many of the two backends were started for job j
BackendsStarted(j) ==
    (IF attempts[j].onnx = "none" THEN 0 ELSE 1) + (IF attempts[j].google = "none" THEN 0 ELSE 1)

\* how many times status s was written to job j
TimesWritten(j, s) == Cardinality({ i \in 1..Len(hist[j]) : hist[j][i][1] = s })

(* C26: for every job each backend is started at most once: the number of  *)
(* attempts started is the number of backends started, 'processing', which *)
(* the ONNX attempt writes at its start, is written at most once; and the  *)
(* fallback is started only when the ONNX attempt was skipped or has       *)
(* failed, so never after it succeeded.                                    *)
C26_EachBackendAtMostOnce ==
    \A j \in Created :
        /\ attempts[j].started = BackendsStarted(j)
        /\ TimesWritten(j, "processing") <= 1
        /\ TimesWritten(j, "completed") <= 1
        /\ attempts[j].google # "none" => attempts[j].onnx \in {"none", "failed"}
        /\ attempts[j].onnx = "ok" => attempts[j].google = "none"

\* both backends were started, the fallback after the ONNX attempt failed
C26_Witness ==
    \E j \in Created :
        /\ attempts[j].started = 2
        /\ attempts[j].onnx = "failed"
        /\ attempts[j].google = "ok"
        /\ TimesWritten(j, "processing") = 1

\* the backends that hold a pending call for job j
InFlight(j) == { b \in {"onnx", "google"} : attempts[j][b] = "running" }

(* C27: for every job at most one attempt is in flight: the ONNX attempt   *)
(* and the fallback are never both running, the job's task is suspended in *)
(* a call of the backend that is running, and when none is running the     *)
(* task has ended.                                                         *)
C27_OneAttemptInFlight ==
    \A j \in Created :
        /\ Cardinality(InFlight(j)) <= 1
        /\ task[j] \in {"onnx_create", "onnx_run"} <=> InFlight(j) = {"onnx"}
        /\ task[j] \in {"google_fetch", "google_body"} <=> InFlight(j) = {"google"}
        /\ task[j] = "done" <=> InFlight(j) = {}

\* the fallback is in flight after the ONNX attempt, which got as far as
\* inference, has ended in failure
C27_Witness ==
    \E j \in Created :
        /\ attempts[j].onnx = "failed"
        /\ InFlight(j) = {"google"}
        /\ TimesWritten(j, "loading_model") = 1
        /\ task[j] = "google_body"

\* the statuses of job j in the order written
StatusesWritten(j) == [i \in 1..Len(hist[j]) |-> hist[j][i][1]]

RECURSIVE Collapse(_)
\* s with each run of equal consecutive elements replaced by one
Collapse(s) ==
    IF Len(s) <= 1 THEN s
    ELSE IF s[1] = s[2] THEN Collapse(Tail(s))
    ELSE <<s[1]>> \o Collapse(Tail(s))

HappyPath ==
    <<"queued", "processing", "loading_model", "generating_audio", "finalizing", "completed">>

(* C28: the status of a job whose ONNX attempt succeeded has taken the     *)
(* values queued, processing, loading_model, generating_audio, finalizing, *)
(* completed, each once and in that order.                                 *)
C28_HappyPathStages ==
    \A j \in Created :
        attempts[j].onnx = "ok" => Collapse(StatusesWritten(j)) = HappyPath

\* a job completed by the ONNX attempt, with every progress value written
C28_Witness ==
    \E j \in Created :
        /\ attempts[j].onnx = "ok"
        /\ job[j].status = "completed"
        /\ Len(hist[j]) = 8
        /\ job[j].ttsProvider = OnnxSuccessProvider

\* the fields a completion sets
CompletionFields == { "audioUrl", "audioPath", "completedAt" }

\* a completed job names the backend whose attempt succeeded and the file
\* that attempt wrote
ProviderNamesProducer ==
    \A j \in Created :
        job[j].status = "completed" =>
            /\ attempts[j].onnx = "ok" \/ attempts[j].google = "ok"
            /\ attempts[j].onnx = "ok" =>
                   /\ job[j].ttsProvider = OnnxSuccessProvider
                   /\ job[j].audioPath = OnnxFile(j)
            /\ attempts[j].google = "ok" =>
                   /\ job[j].ttsProvider = GoogleProvider
                   /\ job[j].audioPath = GoogleFile(j)
            /\ job[j].audioUrl = AudioUrl(job[j].audioPath)
            /\ job[j].progress = 100

\* the step that completes a job sets the fields of a completion, none of
\* which the job had, with the time of the step as completedAt
CompletionSetsAllTogether ==
    \A j \in Created :
        (job[j].status # "completed" /\ job'[j].status = "completed") =>
            /\ DOMAIN job[j] \cap CompletionFields = {}
            /\ job[j].progress < 100
            /\ CompletionFields \subseteq DOMAIN job'[j]
            /\ job'[j].progress = 100
            /\ job'[j].completedAt = now
            /\ Has(job'[j], "ttsProvider")

(* C29: a completed job's ttsProvider names the backend whose attempt      *)
(* produced its audio file, 'ONNX Local Models (success)' or 'Google TTS   *)
(* (fallback)', and the step that sets 'completed' sets audioUrl,          *)
(* audioPath, progress 100 and completedAt with it, on a job that has its  *)
(* provider.                                                               *)
C29_ProviderNamesProducer ==
    [](ProviderNamesProducer) /\ [][CompletionSetsAllTogether]_vars

\* a job completed by the fallback after the ONNX attempt, which had set its
\* own provider name at dispatch, failed
C29_Witness ==
    \E j \in Created :
        /\ job[j].status = "completed"
        /\ attempts[j].onnx = "failed"
        /\ attempts[j].google = "ok"
        /\ job[j].ttsProvider = GoogleProvider
        /\ job[j].completedAt > job[j].createdAt

\* the positions of hist[j] at which a fallback start can have written: the
\* pair <<'generating_audio', 60>> followed by nothing but a terminal status
FallbackStarts(j) ==
    { i \in 2..Len(hist[j]) :
        /\ hist[j][i] = <<"generating_audio", 60>>
        /\ \A k \in (i + 1)..Len(hist[j]) : hist[j][k][1] \in Terminal }

(* C30: a job whose fallback has started has ttsProvider 'Google TTS       *)
(* (fallback)'; the fallback's first write is status 'generating_audio'    *)
(* with progress 60, wherever the ONNX attempt had stopped, and it is what *)
(* the job shows for as long as the fallback is in flight.                 *)
C30_FallbackStartsAfresh ==
    \A j \in Created :
        attempts[j].google # "none" =>
            /\ job[j].ttsProvider = GoogleProvider
            /\ FallbackStarts(j) # {}
            /\ attempts[j].google = "running" =>
                   /\ Seen(job[j]) = <<"generating_audio", 60>>
                   /\ Len(hist[j]) \in FallbackStarts(j)

\* the fallback is in flight after an ONNX attempt that had reached
\* progress 90 with the provider name of the ONNX backend
C30_Witness ==
    \E j \in Created :
        /\ attempts[j].google = "running"
        /\ attempts[j].onnx = "failed"
        /\ \E i \in 1..(Len(hist[j]) - 1) :
               hist[j][i] = <<"finalizing", 90>> /\ (i + 1) \in FallbackStarts(j)
        /\ job[j].progress = 60

\* what a job is given at its creation
Identity(o) == <<o.id, o.text, o.voice, o.createdAt>>

\* no step changes the id, text, voice or createdAt of a job
IdentityUnchanged == \A j \in Created : Identity(job'[j]) = Identity(job[j])

\* a job is stored under its id and was not created after the present
IdentityAsCreated == \A j \in Created : job[j].id = j /\ job[j].createdAt <= now

(* C31: no step of a task, a timer or the sweep changes the id, text,      *)
(* voice or createdAt a job was created with.                              *)
C31_IdentityIsImmutable == [](IdentityAsCreated) /\ [][IdentityUnchanged]_vars

\* a job whose text encodeURIComponent rejects went through both attempts
\* and is in the store, 'failed', after the clock has moved on
C31_Witness ==
    \E j \in jobs :
        /\ ~job[j].text.wellFormed
        /\ attempts[j].onnx = "failed"
        /\ \E i \in 1..Len(hist[j]) : hist[j][i] = <<"generating_audio", 80>>
        /\ job[j].status = "failed"
        /\ now > job[j].createdAt

\* a step of the sweep removes from the store the jobs created more than the
\* threshold before it and no other, and leaves the records, and the files
\* and timers of the jobs it keeps, as they were
SweepRemovesExactlyStale ==
    lastSweep' # lastSweep =>
        /\ jobs' = { j \in jobs : now - job[j].createdAt <= StaleAfter }
        /\ job' = job
        /\ timers' = timers
        /\ \A j \in Created :
               now - job[j].createdAt <= StaleAfter =>
                   files' \cap FilesOf(j) = files \cap FilesOf(j)

(* C32: one run of the sweep removes exactly the jobs created strictly     *)
(* more than an hour before it, terminal or not, and changes neither the   *)
(* record nor the files of any other job.                                  *)
C32_SweepRemovesExactlyStale == [][SweepRemovesExactlyStale]_vars

\* the last sweep removed a job that was not terminal and kept a completed
\* job created exactly an hour before it, with its file
C32_Witness ==
    \E i \in Created, j \in jobs :
        /\ i \notin jobs
        /\ job[i].status \notin Terminal
        /\ lastSweep - job[i].createdAt > StaleAfter
        /\ lastSweep - job[j].createdAt = StaleAfter
        /\ job[j].status = "completed"
        /\ job[j].audioPath \in files

(* C33: a completed job is in the store, and its audio file in the audio   *)
(* directory, until the cleanup delay has passed since its completion.     *)
(* This is the claim as stated; the sweep tests createdAt alone, so it     *)
(* removes a job that completed less than the delay before it.             *)
C33_CompletedJobIsRetained ==
    \A j \in Created :
        (job[j].status = "completed" /\ now < job[j].completedAt + CleanupDelay) =>
            /\ j \in jobs
            /\ job[j].audioPath \in files

\* a step that answers a GET /api/job/:jobId changes nothing of the server
PollChangesNothing ==
    poll' # poll =>
        UNCHANGED <<jobs, job, task, hist, attempts, timers, files, onnxRuntime,
                    pending, bgInstalls, now, lastSweep, cleanupErrors>>

(* C36: a GET /api/job/:jobId, also one that returns a terminal job,       *)
(* leaves the store, the job objects, the tasks, the files and the timers  *)
(* as they were.                                                           *)
C36_PollIsReadOnly == [][PollChangesNothing]_vars

\* a completed job was retrieved and is still in the store, unchanged,
\* with its file and its timer
C36_Witness ==
    /\ poll.code = 200
    /\ poll.body.status = "completed"
    /\ poll.id \in jobs
    /\ poll.body = job[poll.id]
    /\ job[poll.id].audioPath \in files
    /\ \E tm \in timers : tm.id = poll.id

(* C37: no job in the store is 'queued' with progress 0 between two steps, *)
(* so no GET /api/job/:jobId returns one: the step that stores a job runs  *)
(* its task to the first await, past the task's first assignments.         *)
C37_QueuedIsNeverObserved ==
    /\ \A j \in jobs : Seen(job[j]) # <<"queued", 0>> /\ Len(hist[j]) >= 2
    /\ poll.code = 200 => Seen(poll.body) # <<"queued", 0>>

\* a job was polled before any of its backend calls settled: it shows the
\* first write of its task
C37_Witness ==
    /\ poll.code = 200
    /\ poll.id \in jobs
    /\ Len(hist[poll.id]) = 2
    /\ hist[poll.id][1] = <<"queued", 0>>
    /\ Seen(poll.body) = <<"generating_audio", 60>>

\* the timers armed for job j
TimersOf(j) == { tm \in timers : tm.id = j }

\* a job has at most one timer armed, and only once it is 'completed'
OneTimerOfCompletedJob ==
    \A j \in Created :
        /\ Cardinality(TimersOf(j)) <= 1
        /\ TimersOf(j) # {} => job[j].status = "completed"
        /\ TimesWritten(j, "completed") <= 1

\* a timer is armed by the step that completes its job, for the file that
\* step names, and that step arms one
ArmedAtCompletion ==
    /\ \A tm \in timers' \ timers :
           /\ tm.id \in Created
           /\ job[tm.id].status # "completed" /\ job'[tm.id].status = "completed"
           /\ tm.path = job'[tm.id].audioPath
           /\ tm.due = now + CleanupDelay
    /\ \A j \in Created :
           (job[j].status # "completed" /\ job'[j].status = "completed") =>
               Cardinality({ tm \in timers' \ timers : tm.id = j }) = 1

\* a timer that fires removes no store entry but its job's and no file but
\* the one it was armed for, and writes to no job
FiresOnOwnJobOnly ==
    \A tm \in timers \ timers' :
        /\ jobs \ jobs' \subseteq {tm.id}
        /\ files \ files' \subseteq {tm.path}
        /\ jobs' \subseteq jobs /\ files' \subseteq files
        /\ job' = job

(* C38: a job has at most one cleanup timer, armed by the step that sets   *)
(* 'completed', which happens once; and a timer that fires removes only    *)
(* the store entry of its job and the file written for it.                 *)
C38_OneTimerPerJob ==
    [](OneTimerOfCompletedJob) /\ [][ArmedAtCompletion /\ FiresOnOwnJobOnly]_vars

\* of two completed jobs the timer of one has fired and removed it and its
\* file, and the other is in the store with its file and its timer
C38_Witness ==
    \E i \in Created, j \in jobs :
        /\ lastSweep = 0
        /\ job[i].status = "completed" /\ i \notin jobs
        /\ job[i].audioPath \notin files
        /\ TimersOf(i) = {}
        /\ job[j].status = "completed"
        /\ job[j].audioPath \in files
        /\ TimersOf(j) # {}

(* C39: every failed job failed inside the fallback: its ttsProvider is    *)
(* 'Google TTS (fallback)', its progress the 60 of the fallback's start,   *)
(* its error begins with 'TTS failed: ', its fallback attempt is the one   *)
(* that failed, and 'failed' was written right after a state of the        *)
(* fallback.                                                               *)
C39_FailsOnlyInFallback ==
    \A j \in Created :
        job[j].status = "failed" =>
            /\ job[j].ttsProvider = GoogleProvider
            /\ job[j].progress = 60
            /\ Has(job[j], "error") /\ job[j].error[1] = "TTS failed: "
            /\ attempts[j].google = "failed"
            /\ hist[j][Len(hist[j])] = <<"failed", 60>>
            /\ hist[j][Len(hist[j]) - 1] = <<"generating_audio", 60>>

\* a job failed in the fallback that followed an ONNX attempt stopped at
\* progress 90 under the provider name of the ONNX backend
C39_Witness ==
    \E j \in Created :
        /\ job[j].status = "failed"
        /\ attempts[j].onnx = "failed"
        /\ hist[j][Len(hist[j]) - 2] = <<"finalizing", 90>>
        /\ job[j].error = <<"TTS failed: ", "Google TTS error: 500">>

\* the poll that observes 'completed' or 'failed' ends the function, and no
\* GET is issued once either has been observed
StopsAtTerminal ==
    /\ (client.pc = "fetch" /\ client'.seen \in Terminal) =>
           client'.pc \in {"returned", "threw"}
    /\ client'.gets > client.gets => client.seen \notin Terminal

(* C34: pollJobCompletion ends at the first poll that observes 'completed' *)
(* or 'failed', by returning or by throwing, and issues no GET afterwards. *)
(* This is the claim as stated; the throw for 'failed' is inside the try   *)
(* block of the loop body, whose catch block sleeps and polls again until  *)
(* the last attempt.                                                       *)
C34_StopsAtFirstTerminal == [][StopsAtTerminal]_vars

\* the client has issued no more GETs than maxAttempts, returns nothing but
\* a completed job and throws with a message
PollBounded ==
    /\ client.gets <= client.maxAttempts
    /\ client.pc = "returned" =>
           /\ client.returned # <<>>
           /\ client.returned[1].status = "completed"
           /\ client.returned[1].id = client.jobId
    /\ client.pc = "threw" => client.error # "" /\ client.returned = <<>>
    /\ client.pc \in {"fetch", "sleep"} => client.attempt <= client.maxAttempts

PollEnded == client.pc \in {"returned", "threw"}

(* C35: pollJobCompletion issues at most maxAttempts GETs, whatever the    *)
(* answers (a job that is not terminal, 404, no response), and once called *)
(* it ends: it returns a job whose status is 'completed' or it throws.     *)
C35_PollingTerminates == [](PollBounded) /\ ((client.pc # "idle") ~> PollEnded)

\* the client used all its attempts, the last of which saw a job that was
\* not terminal, and threw the timeout
C35_Witness ==
    /\ client.pc = "threw"
    /\ client.maxAttempts = MaxPolls
    /\ client.gets = MaxPolls
    /\ client.seen \in {"processing", "loading_model", "generating_audio", "finalizing"}
    /\ client.error = "Job polling timeout - job did not complete in time"

=============================================================================
